---------------------------- MODULE Spec2Model ----------------------------
(***************************************************************************)
(* femto_go: a limit order book matching engine fed and drained through    *)
(* single-producer/single-consumer ring buffers.                           *)
(*                                                                         *)
(* Part I models RingBuffer.Push / RingBuffer.Read (src/unnamed/part_000)  *)
(* at the granularity of their atomic loads and stores, with one producer  *)
(* and one consumer thread.                                                *)
(* Part II models the pooled matching engine (src/unnamed/part_001) and    *)
(* the order book cursors (src/unnamed/part_003), one command per step.    *)
(***************************************************************************)
EXTENDS Integers, Sequences, FiniteSets, TLC

(***************************************************************************)
(* Bounds of the model.                                                    *)
(***************************************************************************)
\* log2 of the ring size of the model (the program uses 16).
RingBits == 2
\* Number of Push calls the producer makes.
MaxPush == 9
\* Largest len(out) the consumer passes to Read (0 is included).
MaxOut == 3

(***************************************************************************)
(* Part I.  The SPSC ring                                                  *)
(***************************************************************************)
RING_SIZE == 2 ^ RingBits
RING_MASK == RING_SIZE - 1

\* Cursors are uint64 in the program.  TLC's integers are 32 bit wide, so
\* the modulus of unsigned arithmetic is modelled by 2^30, far above every
\* cursor value the model reaches.
UintMod == 2 ^ 30

\* Unsigned subtraction a - b.
USub(a, b) == (a - b + UintMod) % UintMod

\* Bitwise AND of two naturals.
RECURSIVE BitAnd(_, _)
BitAnd(a, b) ==
    IF a = 0 \/ b = 0 THEN 0
    ELSE (IF a % 2 = 1 /\ b % 2 = 1 THEN 1 ELSE 0) + 2 * BitAnd(a \div 2, b \div 2)

Min(a, b) == IF a < b THEN a ELSE b

VARIABLES
    \* RingBuffer fields
    buffer,     \* buffer[0 .. RING_SIZE-1]; 0 is the zero value of T
    writePos,
    readPos,
    \* producer thread: position in Push and its locals
    ppc,        \* "idle", "load_w", "load_r", "check", "store", "publish"
    pv,         \* v, the argument of Push
    pw,         \* write
    pr,         \* read
    pspun,      \* the current/last Push found the ring full at least once
    \* consumer thread: position in Read and its locals
    cpc,        \* "idle", "load_w", "load_r", "check", "copy"
    out,        \* the out slice of the current/last Read (1-based here)
    cw,         \* write
    cr,         \* read
    ccount,     \* count
    ci,         \* i
    ret,        \* value returned by the last Read that returned, -1 if none
    \* history
    pushed,     \* arguments of all Push calls made so far, in call order
    got,        \* concatenation of out[0..ret) over all Reads that returned
    callRead,   \* readPos when the current/last Read was called
    callWrite,  \* writePos when the current/last Read was called
    loadAvail   \* writePos - readPos when the current/last Read loaded write

ringVars == <<buffer, writePos, readPos, ppc, pv, pw, pr, pspun,
              cpc, out, cw, cr, ccount, ci, ret,
              pushed, got, callRead, callWrite, loadAvail>>

VARIABLES
    \* Engine fields
    bidMax,     \* books[s].bidMax, by symbol
    askMin,     \* books[s].askMin, by symbol
    levels,     \* books[s].bidLevels[p] / askLevels[p], by <<s, side, p>>
    orders,     \* the order pool, by slot
    orderIndex, \* external OrderID -> slot
    orderID,    \* the id generator
    freeSlots,  \* recycled slots
    freeHead,
    freeTail,
    \* what the engine thread has done last
    events,     \* the events the last command pushed on the output ring
    lastCmd,    \* the last command the input loop dispatched
    panicked,   \* the engine thread has hit a Go run-time panic
    stream,     \* every event pushed on the output ring so far, where recorded
    called      \* the OrderBook method called last on its own, "none" if none

VARIABLES
    \* the engine's two rings and the three threads around them
    inputRing,  \* commands pushed on e.inputRing and not yet read, oldest first
    outputRing, \* events pushed on e.outputRing and not yet read, oldest first
    inBatch,    \* buf[i .. n) of the input loop: commands read, not yet dispatched
    pending,    \* events of the current command the engine has still to push
    outBatch,   \* buf[i .. n) of the output loop: events read, not yet delivered
    \* history
    issued,     \* the commands the producer has pushed, in push order
    applied,    \* the commands the input loop has dispatched, in dispatch order
    delivered   \* the events the callback was invoked with, in call order

VARIABLES
    \* the TCP server's client handlers, one goroutine per connection
    hpc,        \* by handler: "none", "scan", or its position in Push
    hv,         \* by handler: v, the command it pushes
    hw,         \* by handler: write
    hr          \* by handler: read

serverVars == <<hpc, hv, hw, hr>>

pipeVars == <<inputRing, outputRing, inBatch, pending, outBatch,
              issued, applied, delivered, serverVars>>

engVars == <<bidMax, askMin, levels, orders, orderIndex, orderID,
             freeSlots, freeHead, freeTail, events, lastCmd, panicked, stream,
             called, pipeVars>>

vars == <<ringVars, engVars>>

RingInit ==
    /\ buffer = [i \in 0 .. RING_SIZE - 1 |-> 0]
    /\ writePos = 0
    /\ readPos = 0
    /\ ppc = "idle" /\ pv = 0 /\ pw = 0 /\ pr = 0 /\ pspun = FALSE
    /\ cpc = "idle" /\ out = <<>> /\ cw = 0 /\ cr = 0 /\ ccount = 0 /\ ci = 0
    /\ ret = -1
    /\ pushed = <<>> /\ got = <<>>
    /\ callRead = 0 /\ callWrite = 0 /\ loadAvail = 0

producerVars == <<ppc, pv, pw, pr, pspun, pushed>>
consumerVars == <<cpc, out, cw, cr, ccount, ci, ret, got, callRead, callWrite, loadAvail>>

\* ---- Push -------------------------------------------------------------

\* if write-read < RING_SIZE
HasSpaceFull(write, read) == USub(write, read) <= RING_SIZE
HasSpaceSentinel(write, read) == USub(write, read) < RING_SIZE - 1
HasSpace(write, read) == USub(write, read) < RING_SIZE

\* The producer calls Push(v).  The k-th call pushes the value k, so every
\* element is distinguishable from every other and from the zero value.
PushCall ==
    /\ ppc = "idle"
    /\ Len(pushed) < MaxPush
    /\ pv' = Len(pushed) + 1
    /\ pushed' = Append(pushed, Len(pushed) + 1)
    /\ pspun' = FALSE
    /\ ppc' = "load_w"
    /\ UNCHANGED <<engVars, pw, pr, buffer, writePos, readPos, consumerVars>>

\* write := atomic.LoadUint64(&r.writePos)
PushLoadWrite ==
    /\ ppc = "load_w"
    /\ pw' = writePos
    /\ ppc' = "load_r"
    /\ UNCHANGED <<engVars, pv, pr, pspun, pushed, buffer, writePos, readPos, consumerVars>>

\* read := atomic.LoadUint64(&r.readPos)
PushLoadRead ==
    /\ ppc = "load_r"
    /\ pr' = readPos
    /\ ppc' = "check"
    /\ UNCHANGED <<engVars, pv, pw, pspun, pushed, buffer, writePos, readPos, consumerVars>>

\* if write-read < RING_SIZE { ... } else spin
PushCheckPublishes ==
    /\ ppc = "check"
    /\ IF HasSpace(pw, pr)
       THEN ppc' = "store" /\ writePos' = pw + 1 /\ UNCHANGED pspun
       ELSE ppc' = "load_w" /\ pspun' = TRUE /\ UNCHANGED writePos
    /\ UNCHANGED <<engVars, pv, pw, pr, pushed, buffer, readPos, consumerVars>>
PushCheck ==
    /\ ppc = "check"
    /\ IF HasSpace(pw, pr)
       THEN ppc' = "store" /\ UNCHANGED pspun
       ELSE ppc' = "load_w" /\ pspun' = TRUE
    /\ UNCHANGED <<engVars, pv, pw, pr, pushed, buffer, writePos, readPos, consumerVars>>

\* r.buffer[write&RING_MASK] = v
PushStore ==
    /\ ppc = "store"
    /\ buffer' = [buffer EXCEPT ![BitAnd(pw, RING_MASK)] = pv]
    /\ ppc' = "publish"
    /\ UNCHANGED <<engVars, pv, pw, pr, pspun, pushed, writePos, readPos, consumerVars>>

\* atomic.StoreUint64(&r.writePos, write+1); return
PushPublish ==
    /\ ppc = "publish"
    /\ writePos' = pw + 1
    /\ ppc' = "idle"
    /\ UNCHANGED <<engVars, pv, pw, pr, pspun, pushed, buffer, readPos, consumerVars>>

\* ---- Read -------------------------------------------------------------

\* if available == 0 { continue }
IsEmptyNever(available) == FALSE
IsEmpty(available) == available = 0

\* count := min(available, uint64(len(out)))
ReadCountNoMin(available, n) == n
ReadCount(available, n) == Min(available, n)

\* The consumer calls Read(out) with a fresh out slice of length n.
ReadCall ==
    /\ cpc = "idle"
    /\ \E n \in 0 .. MaxOut : out' = [i \in 1 .. n |-> 0]
    /\ cpc' = "load_w"
    /\ callRead' = readPos
    /\ callWrite' = writePos
    /\ UNCHANGED <<engVars, cw, cr, ccount, ci, ret, got, loadAvail,
                   buffer, writePos, readPos, producerVars>>

\* write := atomic.LoadUint64(&r.writePos)
ReadLoadWrite ==
    /\ cpc = "load_w"
    /\ cw' = writePos
    /\ loadAvail' = writePos - readPos
    /\ cpc' = "load_r"
    /\ UNCHANGED <<engVars, out, cr, ccount, ci, ret, got, callRead, callWrite,
                   buffer, writePos, readPos, producerVars>>

\* read := atomic.LoadUint64(&r.readPos)
ReadLoadRead ==
    /\ cpc = "load_r"
    /\ cr' = readPos
    /\ cpc' = "check"
    /\ UNCHANGED <<engVars, out, cw, ccount, ci, ret, got, callRead, callWrite, loadAvail,
                   buffer, writePos, readPos, producerVars>>

\* available := write - read; if available == 0 { continue }; count := min(...)
ReadCheck ==
    /\ cpc = "check"
    /\ IF IsEmpty(USub(cw, cr))
       THEN cpc' = "load_w" /\ UNCHANGED <<ccount, ci>>
       ELSE /\ ccount' = ReadCount(USub(cw, cr), Len(out))
            /\ ci' = 0
            /\ cpc' = "copy"
    /\ UNCHANGED <<engVars, out, cw, cr, ret, got, callRead, callWrite, loadAvail,
                   buffer, writePos, readPos, producerVars>>

\* out[i] = r.buffer[(read+i)&RING_MASK]; i++
\* (an index past len(out) panics in the program; the step is then disabled)
ReadCopy ==
    /\ cpc = "copy"
    /\ ci < ccount
    /\ ci < Len(out)
    /\ out' = [out EXCEPT ![ci + 1] = buffer[BitAnd(cr + ci, RING_MASK)]]
    /\ ci' = ci + 1
    /\ UNCHANGED <<engVars, cpc, cw, cr, ccount, ret, got, callRead, callWrite, loadAvail,
                   buffer, writePos, readPos, producerVars>>

\* atomic.StoreUint64(&r.readPos, read+count); return uint32(count)
ReadPublish ==
    /\ cpc = "copy"
    /\ ci >= ccount
    /\ readPos' = cr + ccount
    /\ ret' = ccount
    /\ got' = got \o SubSeq(out, 1, ccount)
    /\ cpc' = "idle"
    /\ UNCHANGED <<engVars, out, cw, cr, ccount, ci, callRead, callWrite, loadAvail,
                   buffer, writePos, producerVars>>

NextRing ==
    \/ PushCall \/ PushLoadWrite \/ PushLoadRead \/ PushCheck \/ PushStore \/ PushPublish
    \/ ReadCall \/ ReadLoadWrite \/ ReadLoadRead \/ ReadCheck \/ ReadCopy \/ ReadPublish

(***************************************************************************)
(* Part II.  The matching engine                                           *)
(***************************************************************************)
\* The program's sizes, scaled down: 256 symbols, 2^14 price ticks, 2^26
\* orders and 2^10 free slots there.
MAX_SYMBOLS == 2
MAX_PRICE_LEVELS == 4
MAX_ORDERS == 5
\* log2 of the number of free slots (FREE_MASK needs a power of two).
FreeBits == 2
DISTRIBUTOR_BUFFER == 2 ^ FreeBits
FREE_MASK == DISTRIBUTOR_BUFFER - 1

\* Largest order size of the commands at one price.
MaxSize == 2
\* Number of output events after which no further command is recorded.
MaxStream == 5
\* Number of order ids issued when commands range over two prices, over all
\* symbols or come through the pipeline.
MaxBookIds == 3

Bid == 0
Ask == 1
Sides == {Bid, Ask}
Symbols == 0 .. MAX_SYMBOLS - 1
Traders == {7}

INVALID_EVENT == 0
ORDER_EVENT == 1
CANCEL_EVENT == 2
EXECUTION_EVENT == 3
REJECT_EVENT == 4

\* OutputEvent; a field the code does not set holds its zero value.
OutputEvent(type, id, price, size, trader, symbol, side, counter) ==
    [Type |-> type, OrderID |-> id, Price |-> price, Size |-> size,
     Trader |-> trader, Symbol |-> symbol, Side |-> side, CounterOrderID |-> counter]

\* InputCommand
InputCommand(type, symbol, side, price, size, trader, id) ==
    [Type |-> type, Symbol |-> symbol, Side |-> side, Price |-> price,
     Size |-> size, Trader |-> trader, OrderID |-> id]

\* A *PriceLevel is modelled by the place of the level, <<symbol, side, price>>;
\* the nil pointer by the empty tuple.
NilLevel == <<>>
LevelRefs == Symbols \X Sides \X (0 .. MAX_PRICE_LEVELS - 1)

ZeroLevel == [head |-> 0, tail |-> 0, size |-> 0]
ZeroOrder == [Prev |-> 0, Next |-> 0, Level |-> NilLevel, Size |-> 0]

\* NewEngine: everything zero but askMin.
NewEngine ==
    [bidMax |-> [s \in Symbols |-> 0],
     askMin |-> [s \in Symbols |-> MAX_PRICE_LEVELS],
     levels |-> [l \in LevelRefs |-> ZeroLevel],
     orders |-> [i \in 0 .. MAX_ORDERS - 1 |-> ZeroOrder],
     orderIndex |-> [i \in 0 .. MAX_ORDERS - 1 |-> 0],
     orderID |-> 0,
     freeSlots |-> [i \in 0 .. DISTRIBUTOR_BUFFER - 1 |-> 0],
     freeHead |-> 0,
     freeTail |-> 0,
     events |-> <<>>,
     panicked |-> FALSE]

EngineInit ==
    /\ bidMax = NewEngine.bidMax
    /\ askMin = NewEngine.askMin
    /\ levels = NewEngine.levels
    /\ orders = NewEngine.orders
    /\ orderIndex = NewEngine.orderIndex
    /\ orderID = NewEngine.orderID
    /\ freeSlots = NewEngine.freeSlots
    /\ freeHead = NewEngine.freeHead
    /\ freeTail = NewEngine.freeTail
    /\ events = NewEngine.events
    /\ panicked = NewEngine.panicked
    /\ lastCmd = InputCommand(INVALID_EVENT, 0, 0, 0, 0, 0, 0)
    /\ stream = <<>>
    /\ called = "none"

\* The engine as one value, at the start of a command.
Engine ==
    [bidMax |-> bidMax, askMin |-> askMin, levels |-> levels, orders |-> orders,
     orderIndex |-> orderIndex, orderID |-> orderID, freeSlots |-> freeSlots,
     freeHead |-> freeHead, freeTail |-> freeTail, events |-> <<>>,
     panicked |-> panicked]

\* e.outputRing.Push(ev): the ring delivers every element in order (Part I).
EmitFront(e, ev) == [e EXCEPT !.events = <<ev>> \o @]
Emit(e, ev) == [e EXCEPT !.events = Append(@, ev)]

\* ---- OrderBook --------------------------------------------------------

\* for price := book.bidMax; price > 0; price-- { if size > 0 { return price } }
RECURSIVE ScanBid(_, _, _)
ScanBid(e, s, price) ==
    IF price > 0
    THEN IF e.levels[<<s, Bid, price>>].size > 0 THEN price ELSE ScanBid(e, s, price - 1)
    ELSE 0

\* for price := book.askMin; price < MAX_PRICE_LEVELS; price++ { ... }
RECURSIVE ScanAsk(_, _, _)
ScanAsk(e, s, price) ==
    IF price < MAX_PRICE_LEVELS
    THEN IF e.levels[<<s, Ask, price>>].size > 0 THEN price ELSE ScanAsk(e, s, price + 1)
    ELSE MAX_PRICE_LEVELS

updateBestBidBelow(e, s) == [e EXCEPT !.bidMax[s] = ScanBid(e, s, e.bidMax[s] - 1)]
updateBestBid(e, s) == [e EXCEPT !.bidMax[s] = ScanBid(e, s, e.bidMax[s])]

updateBestAskSentinel(e, s) == [e EXCEPT !.askMin[s] = MAX_PRICE_LEVELS]
updateBestAsk(e, s) == [e EXCEPT !.askMin[s] = ScanAsk(e, s, e.askMin[s])]

\* ---- Engine.unlink ----------------------------------------------------

\* level.size--
unlinkCount(size) == USub(size, 1)

\* order.Prev != 0 ? orders[orderIndex[order.Prev]].Next = order.Next
\*                 : level.head = order.Next
unlinkPrevKeepHead(e, level, slot) ==
    IF e.orders[slot].Prev # 0
    THEN [e EXCEPT !.orders[e.orderIndex[e.orders[slot].Prev]].Next = e.orders[slot].Next]
    ELSE e
unlinkPrev(e, level, slot) ==
    IF e.orders[slot].Prev # 0
    THEN [e EXCEPT !.orders[e.orderIndex[e.orders[slot].Prev]].Next = e.orders[slot].Next]
    ELSE [e EXCEPT !.levels[level].head = e.orders[slot].Next]

\* order.Next != 0 ? orders[orderIndex[order.Next]].Prev = order.Prev
\*                 : level.tail = order.Prev
unlinkNextNoTail(e, level, slot) ==
    IF e.orders[slot].Next # 0
    THEN [e EXCEPT !.orders[e.orderIndex[e.orders[slot].Next]].Prev = e.orders[slot].Prev]
    ELSE e
unlinkNext(e, level, slot) ==
    IF e.orders[slot].Next # 0
    THEN [e EXCEPT !.orders[e.orderIndex[e.orders[slot].Next]].Prev = e.orders[slot].Prev]
    ELSE [e EXCEPT !.levels[level].tail = e.orders[slot].Prev]

unlinkRescan(e, level, id) ==
    LET slot == e.orderIndex[id]
        e1 == unlinkPrev(e, level, slot)
        e2 == unlinkNext(e1, level, slot)
        e3 == [e2 EXCEPT !.orders[slot].Next = 0,
                         !.orders[slot].Prev = 0,
                         !.levels[level].size = unlinkCount(@)]
    IN  updateBestAsk(updateBestBid(e3, level[1]), level[1])
unlink(e, level, id) ==
    LET slot == e.orderIndex[id]
        e1 == unlinkPrev(e, level, slot)
        e2 == unlinkNext(e1, level, slot)
    IN  [e2 EXCEPT !.orders[slot].Next = 0,
                   !.orders[slot].Prev = 0,
                   !.levels[level].size = unlinkCount(@)]

\* ---- Engine.matchLevel ------------------------------------------------

\* nextID := counterOrder.Next
matchNext(e, level, slot) == e.orders[slot].Next

\* fillSize := min(remaining, counterOrder.Size)
fillSizeAll(remaining, size) == remaining
fillSize(remaining, size) == Min(remaining, size)

\* One iteration of the loop over the level's queue and the rest of the loop.
RECURSIVE matchLoop(_, _, _, _, _, _, _, _)
matchLoop(e, level, currentID, remaining, price, oSymbol, oTrader, oID) ==
    IF currentID # 0 /\ remaining > 0
    THEN LET slot == e.orderIndex[currentID]
             nextID == matchNext(e, level, slot)
             fill == fillSize(remaining, e.orders[slot].Size)
             e1 == Emit(e, OutputEvent(EXECUTION_EVENT, oID, price, fill,
                                       oTrader, oSymbol, 0, currentID))
             e2 == [e1 EXCEPT !.orders[slot].Size = USub(@, fill)]
             e3 == IF e2.orders[slot].Size = 0 THEN unlink(e2, level, currentID) ELSE e2
         IN  matchLoop(e3, level, nextID, USub(remaining, fill),
                       price, oSymbol, oTrader, oID)
    ELSE [e |-> e, remaining |-> remaining]

matchLevel(e, level, remaining, price, oSymbol, oTrader, oID) ==
    matchLoop(e, level, e.levels[level].head, remaining, price, oSymbol, oTrader, oID)

\* ---- Engine.match -----------------------------------------------------

\* if remaining > 0 { book.updateBestAsk() }
ShouldRescanAlways(remaining) == TRUE
ShouldRescan(remaining) == remaining > 0

\* book.askMin <= oPrice   (Bid),   book.bidMax >= oPrice   (Ask)
priceCrossesStrict(oSide, best, oPrice) ==
    IF oSide = Bid THEN best < oPrice ELSE best > oPrice
priceCrossesAlways(oSide, best, oPrice) == TRUE
priceCrosses(oSide, best, oPrice) ==
    IF oSide = Bid THEN best <= oPrice ELSE best >= oPrice

\* The price argument of matchLevel: book.askMin (Bid), book.bidMax (Ask).
tradePriceLimit(best, oPrice) == oPrice
tradePrice(best, oPrice) == best

RECURSIVE matchBid(_, _, _, _, _, _)
matchBid(e, remaining, oSymbol, oPrice, oTrader, oID) ==
    IF /\ remaining > 0
       /\ e.askMin[oSymbol] < MAX_PRICE_LEVELS
       /\ priceCrosses(Bid, e.askMin[oSymbol], oPrice)
    THEN LET r == matchLevel(e, <<oSymbol, Ask, e.askMin[oSymbol]>>, remaining,
                             tradePrice(e.askMin[oSymbol], oPrice),
                             oSymbol, oTrader, oID)
             e1 == IF ShouldRescan(r.remaining) THEN updateBestAsk(r.e, oSymbol) ELSE r.e
         IN  matchBid(e1, r.remaining, oSymbol, oPrice, oTrader, oID)
    ELSE [e |-> e, remaining |-> remaining]

RECURSIVE matchAsk(_, _, _, _, _, _)
matchAsk(e, remaining, oSymbol, oPrice, oTrader, oID) ==
    IF /\ remaining > 0
       /\ e.bidMax[oSymbol] > 0
       /\ priceCrosses(Ask, e.bidMax[oSymbol], oPrice)
    THEN LET r == matchLevel(e, <<oSymbol, Bid, e.bidMax[oSymbol]>>, remaining,
                             tradePrice(e.bidMax[oSymbol], oPrice),
                             oSymbol, oTrader, oID)
             e1 == IF ShouldRescan(r.remaining) THEN updateBestBid(r.e, oSymbol) ELSE r.e
         IN  matchAsk(e1, r.remaining, oSymbol, oPrice, oTrader, oID)
    ELSE [e |-> e, remaining |-> remaining]

matchFirstBook(e, size, oSymbol, oSide, oPrice, oTrader, oID) ==
    IF oSide = Bid
    THEN matchBid(e, size, 0, oPrice, oTrader, oID)
    ELSE matchAsk(e, size, 0, oPrice, oTrader, oID)
match(e, size, oSymbol, oSide, oPrice, oTrader, oID) ==
    IF oSide = Bid
    THEN matchBid(e, size, oSymbol, oPrice, oTrader, oID)
    ELSE matchAsk(e, size, oSymbol, oPrice, oTrader, oID)

\* ---- Engine.addToBook -------------------------------------------------

\* if oPrice > book.bidMax { book.bidMax = oPrice }   (and the ask side)
addCursorNever(e, oSymbol, oSide, oPrice) == e
addCursorAlways(e, oSymbol, oSide, oPrice) ==
    IF oSide = Bid
    THEN [e EXCEPT !.bidMax[oSymbol] = oPrice]
    ELSE [e EXCEPT !.askMin[oSymbol] = oPrice]
addCursor(e, oSymbol, oSide, oPrice) ==
    IF oSide = Bid
    THEN IF oPrice > e.bidMax[oSymbol] THEN [e EXCEPT !.bidMax[oSymbol] = oPrice] ELSE e
    ELSE IF oPrice < e.askMin[oSymbol] THEN [e EXCEPT !.askMin[oSymbol] = oPrice] ELSE e

\* The link step; order is the caller's local Order value.
addLinkFront(e, level, order, oID) ==
    IF e.levels[level].head = 0
    THEN [e |-> [e EXCEPT !.levels[level].head = oID, !.levels[level].tail = oID],
          order |-> order]
    ELSE [e |-> [e EXCEPT !.orders[e.orderIndex[e.levels[level].head]].Prev = oID,
                          !.levels[level].head = oID],
          order |-> [order EXCEPT !.Next = e.levels[level].head]]
addLink(e, level, order, oID) ==
    IF e.levels[level].head = 0
    THEN [e |-> [e EXCEPT !.levels[level].head = oID, !.levels[level].tail = oID],
          order |-> order]
    ELSE [e |-> [e EXCEPT !.orders[e.orderIndex[e.levels[level].tail]].Next = oID,
                          !.levels[level].tail = oID],
          order |-> [order EXCEPT !.Prev = e.levels[level].tail]]

addToBook(e, order, oSymbol, oSide, oPrice, oID) ==
    LET level == <<oSymbol, oSide, oPrice>>
        e1 == addCursor(e, oSymbol, oSide, oPrice)
        l == addLink(e1, level, [order EXCEPT !.Level = level], oID)
    IN  [l.e EXCEPT !.orders[l.e.orderIndex[oID]] = l.order,
                    !.levels[level].size = @ + 1]

\* ---- Engine.Limit -----------------------------------------------------

\* e.outputRing.Push(OutputEvent{Type: REJECT_EVENT}); return
RejectSilent(e) == e
RejectCounting(e) ==
    Emit([e EXCEPT !.orderID = @ + 1], OutputEvent(REJECT_EVENT, 0, 0, 0, 0, 0, 0, 0))
RejectTwice(e) ==
    Emit(Emit(e, OutputEvent(REJECT_EVENT, 0, 0, 0, 0, 0, 0, 0)),
         OutputEvent(REJECT_EVENT, 0, 0, 0, 0, 0, 0, 0))
Reject(e) == Emit(e, OutputEvent(REJECT_EVENT, 0, 0, 0, 0, 0, 0, 0))

\* Pick internal slot (recycled or new); the result carries the slot.
allocateNewest(e, newOrderID) ==
    IF e.freeHead # e.freeTail
    THEN [e |-> [e EXCEPT !.freeHead = @ + 1],
          slot |-> e.freeSlots[BitAnd(e.freeTail - 1, FREE_MASK)]]
    ELSE [e |-> e, slot |-> newOrderID]
allocate(e, newOrderID) ==
    IF e.freeHead # e.freeTail
    THEN [e |-> [e EXCEPT !.freeHead = @ + 1],
          slot |-> e.freeSlots[BitAnd(e.freeHead, FREE_MASK)]]
    ELSE [e |-> e, slot |-> newOrderID]

\* if price == 0 || size == 0 || price >= MAX_PRICE_LEVELS
invalidLimitNoSize(price, size) == price = 0 \/ price >= MAX_PRICE_LEVELS
invalidLimit(price, size) == price = 0 \/ size = 0 \/ price >= MAX_PRICE_LEVELS

\* if remaining > 0 { order.Size = remaining; e.addToBook(...) }
ShouldRestAlways(remaining) == TRUE
ShouldRest(remaining) == remaining > 0

\* OutputEvent{Type: ORDER_EVENT, OrderID: newOrderID, Price: price, ...}
orderEventNoSide(newOrderID, price, size, trader, symbol, side) ==
    OutputEvent(ORDER_EVENT, newOrderID, price, size, trader, symbol, 0, 0)
orderEvent(newOrderID, price, size, trader, symbol, side) ==
    OutputEvent(ORDER_EVENT, newOrderID, price, size, trader, symbol, side, 0)

Limit(e, symbol, side, price, size, trader) ==
    IF invalidLimit(price, size)
    THEN Reject(e)
    ELSE LET e1 == [e EXCEPT !.orderID = @ + 1]
             newOrderID == e1.orderID
             a == allocate(e1, newOrderID)
         IN  IF newOrderID >= MAX_ORDERS
             THEN \* e.orderIndex[newOrderID]: index out of range
                  [a.e EXCEPT !.panicked = TRUE]
             ELSE LET e2 == [a.e EXCEPT !.orderIndex[newOrderID] = a.slot]
                      e3 == Emit(e2, orderEvent(newOrderID, price, size,
                                                trader, symbol, side))
                      m == match(e3, size, symbol, side, price, trader, newOrderID)
                  IN  IF ShouldRest(m.remaining)
                      THEN addToBook(m.e, [ZeroOrder EXCEPT !.Size = m.remaining],
                                     symbol, side, price, newOrderID)
                      ELSE m.e

\* ---- Engine.Cancel ----------------------------------------------------

\* Push into freeSlots array if there is room
releaseTwice(e, slot) ==
    LET once == IF BitAnd(e.freeTail + 1, FREE_MASK) # BitAnd(e.freeHead, FREE_MASK)
                THEN [e EXCEPT !.freeSlots[BitAnd(e.freeTail, FREE_MASK)] = slot,
                               !.freeTail = @ + 1]
                ELSE e
    IN  IF BitAnd(once.freeTail + 1, FREE_MASK) # BitAnd(once.freeHead, FREE_MASK)
        THEN [once EXCEPT !.freeSlots[BitAnd(once.freeTail, FREE_MASK)] = slot,
                          !.freeTail = @ + 1]
        ELSE once
release(e, slot) ==
    IF BitAnd(e.freeTail + 1, FREE_MASK) # BitAnd(e.freeHead, FREE_MASK)
    THEN [e EXCEPT !.freeSlots[BitAnd(e.freeTail, FREE_MASK)] = slot,
                   !.freeTail = @ + 1]
    ELSE e

\* order.Size = 0 // Mark as cancelled
markCancelledKeep(size) == size
markCancelled(size) == 0

Cancel(e, id) ==
    IF id = 0 \/ id > e.orderID
    THEN Reject(e)
    ELSE LET slot == e.orderIndex[id]
         IN  IF e.orders[slot].Size = 0
             THEN Reject(e)
             ELSE IF e.orders[slot].Level = NilLevel
             THEN \* level.head through a nil *PriceLevel
                  [e EXCEPT !.panicked = TRUE]
             ELSE LET e1 == unlink(e, e.orders[slot].Level, id)
                      e2 == [e1 EXCEPT !.orders[slot].Size = markCancelled(@)]
                      e3 == release(e2, slot)
                  IN  Emit(e3, OutputEvent(CANCEL_EVENT, id, 0, 0, 0, 0, 0, 0))

\* ---- the input loop's dispatch ----------------------------------------

SetEngine(e) ==
    /\ bidMax' = e.bidMax
    /\ askMin' = e.askMin
    /\ levels' = e.levels
    /\ orders' = e.orders
    /\ orderIndex' = e.orderIndex
    /\ orderID' = e.orderID
    /\ freeSlots' = e.freeSlots
    /\ freeHead' = e.freeHead
    /\ freeTail' = e.freeTail
    /\ events' = e.events
    /\ panicked' = e.panicked

\* The input loop takes the next command ev off its batch and dispatches it:
\* case ORDER_EVENT: e.Limit(ev.Symbol, ev.Side, ev.Price, ev.Size, ev.Trader)
\* case CANCEL_EVENT: e.Cancel(ev.OrderID)
DispatchRejectOther(e, ev) ==
    IF ev.Type = ORDER_EVENT
    THEN Limit(e, ev.Symbol, ev.Side, ev.Price, ev.Size, ev.Trader)
    ELSE IF ev.Type = CANCEL_EVENT
    THEN Cancel(e, ev.OrderID)
    ELSE Reject(e)
Dispatch(e, ev) ==
    IF ev.Type = ORDER_EVENT
    THEN Limit(e, ev.Symbol, ev.Side, ev.Price, ev.Size, ev.Trader)
    ELSE IF ev.Type = CANCEL_EVENT
    THEN Cancel(e, ev.OrderID)
    ELSE e

\* The ORDER commands with valid fields, for the given symbols and prices.
Orders(symbols, prices, sizes) ==
    { InputCommand(ORDER_EVENT, symbol, side, price, size, trader, 0) :
        symbol \in symbols, side \in Sides, price \in prices,
        size \in sizes, trader \in Traders }

\* ORDER commands at the edges of validation: price 0, price
\* MAX_PRICE_LEVELS and size 0.
BadOrders ==
    { InputCommand(ORDER_EVENT, 0, Bid, 0, 1, 7, 0),
      InputCommand(ORDER_EVENT, 0, Ask, MAX_PRICE_LEVELS, 1, 7, 0),
      InputCommand(ORDER_EVENT, 0, Bid, 1, 0, 7, 0) }

\* A producer has pushed an ORDER command out of cmds and the input loop
\* dispatches it; at most maxIds order ids are issued.
LimitCmd(cmds, maxIds) ==
    /\ ~panicked
    /\ orderID < maxIds
    /\ \E ev \in cmds :
          /\ SetEngine(Dispatch(Engine, ev))
          /\ lastCmd' = ev
    /\ UNCHANGED <<ringVars, stream, called, pipeVars>>

\* A producer has pushed a CANCEL command and the input loop dispatches it.
\* Every id above orderID takes the same path as orderID + 1.
CancelCmd ==
    /\ ~panicked
    /\ \E id \in 0 .. orderID + 1 :
          /\ SetEngine(Dispatch(Engine, InputCommand(CANCEL_EVENT, 0, 0, 0, 0, 0, id)))
          /\ lastCmd' = InputCommand(CANCEL_EVENT, 0, 0, 0, 0, 0, id)
    /\ UNCHANGED <<ringVars, stream, called, pipeVars>>

\* Commands for one symbol over all prices, with sizes that allow partial
\* and exact fills.
BookSizes == 1 .. MaxSize
\* Number of order ids issued when commands range over all prices.
BookIds == 3
BookLimit ==
    LimitCmd(Orders({0}, 1 .. MAX_PRICE_LEVELS - 1, BookSizes) \cup BadOrders, BookIds)
NextEngine == BookLimit \/ CancelCmd

\* Commands at one price of one symbol: a single queue per side.
QueuePrice == 2
QueueLimit == LimitCmd(Orders({0}, {QueuePrice}, 1 .. MaxSize), MAX_ORDERS)
NextQueue == QueueLimit \/ CancelCmd

\* Commands at two prices of one symbol, the lowest price and QueuePrice:
\* an order can cross at a price other than its own.
LadderLimit == LimitCmd(Orders({0}, {1, QueuePrice}, 1 .. MaxSize), MaxBookIds)
NextLadder == LadderLimit \/ CancelCmd

\* Commands for every symbol at one price, orders of size 1.
SymbolLimit == LimitCmd(Orders(Symbols, {QueuePrice}, {1}), MaxBookIds)
NextSymbols == SymbolLimit \/ CancelCmd

\* The input loop dispatches a command out of cmds and the events it pushes
\* on the output ring are recorded, in the order of the pushes, until
\* MaxStream events are on record.
StreamCmd(cmds) ==
    /\ ~panicked
    /\ Len(stream) < MaxStream
    /\ \E ev \in cmds :
          /\ SetEngine(Dispatch(Engine, ev))
          /\ lastCmd' = ev
          /\ stream' = stream \o Dispatch(Engine, ev).events
    /\ UNCHANGED <<ringVars, called, pipeVars>>

StreamLimit ==
    /\ orderID < MaxBookIds
    /\ StreamCmd(Orders({0}, {QueuePrice}, 1 .. MaxSize) \cup BadOrders)
StreamCancel ==
    StreamCmd({ InputCommand(CANCEL_EVENT, 0, 0, 0, 0, 0, id) : id \in 0 .. orderID + 1 })
NextStream == StreamLimit \/ StreamCancel

\* ---- the pipeline: producer, input loop, output loop --------------------

\* Number of client connections the server accepts, and of the command lines
\* the clients send in all.
MaxConns == 2
MaxLines == 3
Handlers == 1 .. MaxConns

\* Number of commands the producer pushes.
MaxIssue == 4

\* Part I shows that a ring hands over what was pushed, in push order, and
\* holds up to RING_SIZE elements; here a ring is the sequence of the elements
\* pushed and not yet read, and Push and Read are single steps.
PipeInit ==
    /\ inputRing = <<>> /\ outputRing = <<>>
    /\ inBatch = <<>> /\ pending = <<>> /\ outBatch = <<>>
    /\ issued = <<>> /\ applied = <<>> /\ delivered = <<>>
    /\ hpc = [h \in Handlers |-> "none"]
    /\ hv = [h \in Handlers |-> 0]
    /\ hw = [h \in Handlers |-> 0]
    /\ hr = [h \in Handlers |-> 0]

\* r.buffer[write&RING_MASK] = v; writePos = write + 1
RingPushFront(ring, v) == <<v>> \o ring
RingPush(ring, v) == Append(ring, v)

\* count := min(available, len(out)); out[i] = r.buffer[(read+i)&RING_MASK];
\* readPos = read + count
RingRead(ring, n) ==
    LET count == ReadCount(Len(ring), n)
    IN  [out |-> SubSeq(ring, 1, count),
         ring |-> SubSeq(ring, count + 1, Len(ring))]

\* The commands of the producer: orders of size 1 at one price, the cancel
\* of the first id (rejected while no order was accepted), the zeroed record
\* and a record with an event type the input loop has no case for.
ZeroCommand == InputCommand(INVALID_EVENT, 0, 0, 0, 0, 0, 0)
OtherCommand == InputCommand(EXECUTION_EVENT, 0, Ask, QueuePrice, 1, 7, 1)
PipeCommands ==
    Orders({0}, {QueuePrice}, {1})
        \cup {InputCommand(CANCEL_EVENT, 0, 0, 0, 0, 0, 1), ZeroCommand, OtherCommand}

\* The number of ORDER commands in a sequence of commands.
RECURSIVE CountOrders(_)
CountOrders(cmds) ==
    IF cmds = <<>> THEN 0
    ELSE (IF Head(cmds).Type = ORDER_EVENT THEN 1 ELSE 0) + CountOrders(Tail(cmds))

\* main: engine.inputRing.Push(cmd); Push spins while the ring is full.
ProducerPush ==
    /\ Len(issued) < MaxIssue
    /\ HasSpace(Len(inputRing), 0)
    /\ \E cmd \in PipeCommands :
          /\ cmd.Type = ORDER_EVENT => CountOrders(issued) < MaxBookIds
          /\ inputRing' = RingPush(inputRing, cmd)
          /\ issued' = Append(issued, cmd)
    /\ UNCHANGED <<ringVars, bidMax, askMin, levels, orders, orderIndex, orderID,
                   freeSlots, freeHead, freeTail, events, lastCmd, panicked, stream, called, serverVars,
                   outputRing, inBatch, pending, outBatch, applied, delivered>>

\* StartInputDistributor: n := e.inputRing.Read(buf), once the previous batch
\* is worked off; Read spins while the ring is empty.
InputRead ==
    /\ inBatch = <<>> /\ pending = <<>>
    /\ ~IsEmpty(Len(inputRing))
    /\ inBatch' = RingRead(inputRing, DISTRIBUTOR_BUFFER).out
    /\ inputRing' = RingRead(inputRing, DISTRIBUTOR_BUFFER).ring
    /\ UNCHANGED <<ringVars, bidMax, askMin, levels, orders, orderIndex, orderID,
                   freeSlots, freeHead, freeTail, events, lastCmd, panicked, stream, called, serverVars,
                   outputRing, pending, outBatch, issued, applied, delivered>>

\* StartInputDistributor: ev := &buf[i]; switch ev.Type { ... }.  The engine's
\* fields change with the call; the events of the call are pushed on the
\* output ring one by one (EnginePush) before the loop goes on.
InputDispatch ==
    /\ ~panicked
    /\ inBatch # <<>> /\ pending = <<>>
    /\ SetEngine(Dispatch(Engine, Head(inBatch)))
    /\ lastCmd' = Head(inBatch)
    /\ pending' = Dispatch(Engine, Head(inBatch)).events
    /\ stream' = stream \o Dispatch(Engine, Head(inBatch)).events
    /\ applied' = Append(applied, Head(inBatch))
    /\ inBatch' = Tail(inBatch)
    /\ UNCHANGED <<ringVars, called, serverVars, inputRing, outputRing, outBatch, issued,
                   delivered>>

\* e.outputRing.Push(OutputEvent{...}) inside Limit and Cancel; Push spins
\* while the output ring is full.
EnginePushDrop ==
    /\ pending # <<>>
    /\ outputRing' = IF HasSpace(Len(outputRing), 0)
                     THEN RingPush(outputRing, Head(pending))
                     ELSE outputRing
    /\ pending' = Tail(pending)
    /\ UNCHANGED <<ringVars, bidMax, askMin, levels, orders, orderIndex, orderID,
                   freeSlots, freeHead, freeTail, events, lastCmd, panicked, stream, called, serverVars,
                   inputRing, inBatch, outBatch, issued, applied, delivered>>
EnginePush ==
    /\ pending # <<>>
    /\ HasSpace(Len(outputRing), 0)
    /\ outputRing' = RingPush(outputRing, Head(pending))
    /\ pending' = Tail(pending)
    /\ UNCHANGED <<ringVars, bidMax, askMin, levels, orders, orderIndex, orderID,
                   freeSlots, freeHead, freeTail, events, lastCmd, panicked, stream, called, serverVars,
                   inputRing, inBatch, outBatch, issued, applied, delivered>>

\* StartOutputDistributor: n := e.outputRing.Read(buf)
OutputRead ==
    /\ outBatch = <<>>
    /\ ~IsEmpty(Len(outputRing))
    /\ outBatch' = RingRead(outputRing, DISTRIBUTOR_BUFFER).out
    /\ outputRing' = RingRead(outputRing, DISTRIBUTOR_BUFFER).ring
    /\ UNCHANGED <<ringVars, bidMax, askMin, levels, orders, orderIndex, orderID,
                   freeSlots, freeHead, freeTail, events, lastCmd, panicked, stream, called, serverVars,
                   inputRing, inBatch, pending, issued, applied, delivered>>

\* StartOutputDistributor: callbackFunc(buf[i])
Callback ==
    /\ outBatch # <<>>
    /\ delivered' = Append(delivered, Head(outBatch))
    /\ outBatch' = Tail(outBatch)
    /\ UNCHANGED <<ringVars, bidMax, askMin, levels, orders, orderIndex, orderID,
                   freeSlots, freeHead, freeTail, events, lastCmd, panicked, stream, called, serverVars,
                   inputRing, outputRing, inBatch, pending, issued, applied>>

NextPipe ==
    \/ ProducerPush \/ InputRead \/ InputDispatch
    \/ EnginePush \/ OutputRead \/ Callback

\* A producer that pushes MaxFlow commands, one more than a ring of
\* RingBits = 2 holds, and fewer than MAX_ORDERS orders, as the loop of main
\* does: orders of size 1 at one price and the cancel of the first id.
MaxFlow == 5
FlowCommands ==
    Orders({0}, {QueuePrice}, {1}) \cup {InputCommand(CANCEL_EVENT, 0, 0, 0, 0, 0, 1)}
FlowPush ==
    /\ Len(issued) < MaxFlow
    /\ HasSpace(Len(inputRing), 0)
    /\ \E cmd \in FlowCommands :
          /\ cmd.Type = ORDER_EVENT => CountOrders(issued) < MAX_ORDERS - 1
          /\ inputRing' = RingPush(inputRing, cmd)
          /\ issued' = Append(issued, cmd)
    /\ UNCHANGED <<ringVars, bidMax, askMin, levels, orders, orderIndex, orderID,
                   freeSlots, freeHead, freeTail, events, lastCmd, panicked, stream, called, serverVars,
                   outputRing, inBatch, pending, outBatch, applied, delivered>>

NextFlow ==
    \/ FlowPush \/ InputRead \/ InputDispatch
    \/ EnginePush \/ OutputRead \/ Callback

\* The steps of InputDispatch, told by what they do to the batch and to the
\* record of the commands applied: no other step appends to applied.
DispatchStep ==
    /\ ~panicked
    /\ inBatch # <<>> /\ pending = <<>>
    /\ inBatch' = Tail(inBatch)
    /\ applied' = Append(applied, Head(inBatch))

\* ---- the TCP server: one handler goroutine per connection --------------

\* The variables no step of a handler touches.
handlerFrame ==
    <<bidMax, askMin, levels, orders, orderIndex, orderID, freeSlots, freeHead,
      freeTail, events, lastCmd, panicked, stream, called,
      inputRing, outputRing, inBatch, pending, outBatch, issued, applied, delivered,
      ppc, pv, pw, pr, pspun, consumerVars>>

\* Server.Start: conn := s.listener.Accept(); go s.handleClient(conn, id)
Accept(h) ==
    /\ hpc[h] = "none"
    /\ hpc' = [hpc EXCEPT ![h] = "scan"]
    /\ UNCHANGED <<handlerFrame, hv, hw, hr, pushed, buffer, writePos, readPos>>

\* handleMessage: scanner.Scan() has a LIMIT or CANCEL line; the handler
\* builds cmd and calls s.engine.inputRing.Push(cmd).  The k-th line of all
\* gives the command k.
HandleLine(h) ==
    /\ hpc[h] = "scan"
    /\ Len(pushed) < MaxLines
    /\ hv' = [hv EXCEPT ![h] = Len(pushed) + 1]
    /\ pushed' = Append(pushed, Len(pushed) + 1)
    /\ hpc' = [hpc EXCEPT ![h] = "load_w"]
    /\ UNCHANGED <<handlerFrame, hw, hr, buffer, writePos, readPos>>

\* write := atomic.LoadUint64(&r.writePos)
HandlerLoadWrite(h) ==
    /\ hpc[h] = "load_w"
    /\ hw' = [hw EXCEPT ![h] = writePos]
    /\ hpc' = [hpc EXCEPT ![h] = "load_r"]
    /\ UNCHANGED <<handlerFrame, hv, hr, pushed, buffer, writePos, readPos>>

\* read := atomic.LoadUint64(&r.readPos)
HandlerLoadRead(h) ==
    /\ hpc[h] = "load_r"
    /\ hr' = [hr EXCEPT ![h] = readPos]
    /\ hpc' = [hpc EXCEPT ![h] = "check"]
    /\ UNCHANGED <<handlerFrame, hv, hw, pushed, buffer, writePos, readPos>>

\* if write-read < RING_SIZE { ... } else spin
HandlerCheck(h) ==
    /\ hpc[h] = "check"
    /\ hpc' = [hpc EXCEPT ![h] = IF HasSpace(hw[h], hr[h]) THEN "store" ELSE "load_w"]
    /\ UNCHANGED <<handlerFrame, hv, hw, hr, pushed, buffer, writePos, readPos>>

\* r.buffer[write&RING_MASK] = v
HandlerStore(h) ==
    /\ hpc[h] = "store"
    /\ buffer' = [buffer EXCEPT ![BitAnd(hw[h], RING_MASK)] = hv[h]]
    /\ hpc' = [hpc EXCEPT ![h] = "publish"]
    /\ UNCHANGED <<handlerFrame, hv, hw, hr, pushed, writePos, readPos>>

\* atomic.StoreUint64(&r.writePos, write+1); return, back to scanner.Scan()
HandlerPublish(h) ==
    /\ hpc[h] = "publish"
    /\ writePos' = hw[h] + 1
    /\ hpc' = [hpc EXCEPT ![h] = "scan"]
    /\ UNCHANGED <<handlerFrame, hv, hw, hr, pushed, buffer, readPos>>

NextServer ==
    \E h \in Handlers :
        \/ Accept(h) \/ HandleLine(h)
        \/ HandlerLoadWrite(h) \/ HandlerLoadRead(h) \/ HandlerCheck(h)
        \/ HandlerStore(h) \/ HandlerPublish(h)

\* ---- updateBestBid and updateBestAsk on any book ------------------------

\* Largest count of a price level of a book that was not built by the engine.
MaxLevelSize == 1

\* makePriceLevel(size) of the tests: a level with the given count.
makePriceLevel(size) ==
    IF size = 0 THEN ZeroLevel ELSE [head |-> 1, tail |-> size, size |-> size]

\* Any book of symbol 0: every level of every price, 0 included, empty or
\* not, and the cursors anywhere in their ranges.
BookInit ==
    /\ RingInit /\ PipeInit
    /\ bidMax \in [Symbols -> 0 .. MAX_PRICE_LEVELS - 1]
    /\ askMin \in [Symbols -> 0 .. MAX_PRICE_LEVELS]
    /\ bidMax[1] = 0 /\ askMin[1] = MAX_PRICE_LEVELS
    /\ \E bids \in [0 .. MAX_PRICE_LEVELS - 1 -> 0 .. MaxLevelSize] :
       \E asks \in [0 .. MAX_PRICE_LEVELS - 1 -> 0 .. MaxLevelSize] :
          levels = [l \in LevelRefs |->
                      IF l[1] # 0 THEN ZeroLevel
                      ELSE IF l[2] = Bid THEN makePriceLevel(bids[l[3]])
                      ELSE makePriceLevel(asks[l[3]])]
    /\ orders = NewEngine.orders
    /\ orderIndex = NewEngine.orderIndex
    /\ orderID = NewEngine.orderID
    /\ freeSlots = NewEngine.freeSlots
    /\ freeHead = NewEngine.freeHead
    /\ freeTail = NewEngine.freeTail
    /\ events = NewEngine.events
    /\ panicked = NewEngine.panicked
    /\ lastCmd = InputCommand(INVALID_EVENT, 0, 0, 0, 0, 0, 0)
    /\ stream = <<>>
    /\ called = "none"

\* book.updateBestBid()
UpdateBestBidCall ==
    /\ SetEngine(updateBestBid(Engine, 0))
    /\ called' = "updateBestBid"
    /\ UNCHANGED <<ringVars, lastCmd, stream, pipeVars>>

\* book.updateBestAsk()
UpdateBestAskCall ==
    /\ SetEngine(updateBestAsk(Engine, 0))
    /\ called' = "updateBestAsk"
    /\ UNCHANGED <<ringVars, lastCmd, stream, pipeVars>>

NextBook == UpdateBestBidCall \/ UpdateBestAskCall

(***************************************************************************)
(* Specifications                                                          *)
(***************************************************************************)
Init == RingInit /\ EngineInit /\ PipeInit

\* One producer and one consumer on one ring.
SpecRing == Init /\ [][NextRing]_vars

\* The consumer runs on its own core and is never descheduled for good: a
\* Read that was called keeps taking steps.  Its steps change ring variables
\* only.  Nothing is assumed of the producer.
ConsumerStep ==
    ReadLoadWrite \/ ReadLoadRead \/ ReadCheck \/ ReadCopy \/ ReadPublish
SpecRingFair ==
    SpecRing /\ WF_ringVars(ConsumerStep)

\* The engine thread applying any sequence of commands on one book.
SpecEngine == Init /\ [][NextEngine]_vars

\* The engine thread applying any sequence of commands at one price, until
\* the id space is used up.
SpecQueue == Init /\ [][NextQueue]_vars

\* The engine thread applying any sequence of commands at two prices.
SpecLadder == Init /\ [][NextLadder]_vars

\* The engine thread applying commands at one price, with the output stream
\* on record.
SpecStream == Init /\ [][NextStream]_vars

\* The engine thread applying any sequence of commands on the books of all
\* symbols.
SpecSymbols == Init /\ [][NextSymbols]_vars

\* The client handlers of the TCP server pushing on the input ring.
SpecServer == Init /\ [][NextServer]_vars

\* updateBestBid and updateBestAsk called on any book.
SpecBook == BookInit /\ [][NextBook]_vars

\* One producer, the input loop and the output loop around the engine.
SpecPipe == Init /\ [][NextPipe]_vars

\* The pipeline with the three goroutines scheduled fairly: each is a busy
\* loop on its own core and none is descheduled for good.  At any time at
\* most one step of a goroutine is enabled and it stays enabled until taken,
\* so fairness of each step is fairness of the goroutine.  The engine runs on
\* the goroutine of the input loop.
SpecFlow ==
    /\ Init /\ [][NextFlow]_vars
    /\ WF_vars(FlowPush)
    /\ WF_vars(InputRead) /\ WF_<<inBatch, applied>>(DispatchStep) /\ WF_vars(EnginePush)
    /\ WF_vars(OutputRead) /\ WF_vars(Callback)

(***************************************************************************)
(* Properties of the ring                                                  *)
(***************************************************************************)

\* The Read that was called last has returned.
ReadReturned == cpc = "idle" /\ ret # -1
\* The Read that was called last found the ring empty when it was called.
CalledOnEmpty == callWrite = callRead

\* C1: with one producer and one consumer, under every interleaving, the
\* concatenation of everything Read has returned is a prefix of the sequence
\* of elements pushed, and it is exactly the elements at the consumed
\* positions: nothing is lost, duplicated, reordered or overwritten.
C1_ReadsArePrefixOfPushes ==
    /\ Len(got) <= Len(pushed)
    /\ got = SubSeq(pushed, 1, Len(got))
    /\ Len(got) = readPos

\* C1 witness: elements pushed after the indices wrapped have been returned
\* while the producer is inside a later Push.
C1_Witness ==
    /\ readPos > RING_SIZE
    /\ got = SubSeq(pushed, 1, readPos)
    /\ ppc = "publish"
    /\ pw >= 2 * RING_SIZE

\* C2: 0 <= writePos - readPos <= RING_SIZE in every reachable state; the
\* cell Push is about to write holds no unread element, and every cell Read
\* is about to copy has been published.
C2_CursorDistance ==
    /\ readPos <= writePos
    /\ writePos - readPos <= RING_SIZE
    /\ ppc = "store" =>
          \A k \in readPos .. writePos - 1 :
              BitAnd(k, RING_MASK) # BitAnd(pw, RING_MASK)
    /\ (cpc = "copy" /\ ci < ccount) => cr + ci < writePos

\* C2 witness: the ring is full after a wrap, the producer has found it full
\* and the consumer is in the middle of copying.
C2_Witness ==
    /\ writePos - readPos = RING_SIZE
    /\ readPos > 0
    /\ pspun /\ ppc = "check"
    /\ cpc = "copy" /\ ci < ccount

\* C3: the capacity is exactly RING_SIZE.  As long as no Read has advanced
\* readPos, a Push finds the ring full only when RING_SIZE elements are
\* in it (so RING_SIZE pushes complete without a Read) and no more than
\* RING_SIZE pushes complete; when the blocked push has completed after a
\* Read of one element, writePos - readPos is RING_SIZE again.
C3_CapacityExactlyRingSize ==
    /\ (readPos = 0 /\ pspun) => writePos = RING_SIZE
    /\ readPos = 0 => writePos <= RING_SIZE
    /\ (pspun /\ ppc = "idle" /\ writePos = RING_SIZE + 1 /\ Len(got) = 1)
          => writePos - readPos = RING_SIZE

\* C3 witness: RING_SIZE pushes completed without a Read, the next Push
\* found the ring full, and it completed after a Read of one element.
C3_Witness ==
    /\ pspun /\ ppc = "idle"
    /\ writePos = RING_SIZE + 1
    /\ Len(got) = 1 /\ ret = 1
    /\ readPos = 1

\* C4: a Read called on an empty ring does not return, and changes neither
\* readPos nor out, as long as no Push has published an element; when it has
\* returned, a Push has published and out[0] holds the element pushed first
\* after the call.  Once an element is published the Read does return.
C4_EmptyReadSafety ==
    /\ (cpc # "idle" /\ CalledOnEmpty /\ writePos = callWrite) =>
          /\ cpc \in {"load_w", "load_r", "check"}
          /\ readPos = callRead
          /\ out = [i \in 1 .. Len(out) |-> 0]
    /\ (ReadReturned /\ CalledOnEmpty) =>
          /\ writePos > callWrite
          /\ Len(out) >= 1 =>
                /\ ret >= 1
                /\ out[1] = pushed[callRead + 1]

C4_EmptyReadBlocksUntilPush ==
    /\ []C4_EmptyReadSafety
    /\ (cpc # "idle" /\ CalledOnEmpty /\ writePos > callWrite) ~> ReadReturned

\* C4 witness: a Read that was called on an empty ring and spun has returned
\* the element pushed meanwhile.
C4_Witness ==
    /\ ReadReturned /\ CalledOnEmpty
    /\ callRead > 0
    /\ Len(out) >= 1 /\ ret = 1
    /\ out[1] = pushed[callRead + 1]

\* C5: every Read that returns, for any out buffer, returns a count >= 1
\* that equals min(available, len(out)), has copied that many oldest unread
\* elements into out[0..count) in push order, and has advanced readPos by
\* exactly count.
C5_ReadReturnsCount ==
    ReadReturned =>
        /\ ret >= 1
        /\ ret = Min(loadAvail, Len(out))
        /\ SubSeq(out, 1, ret) = SubSeq(pushed, callRead + 1, callRead + ret)
        /\ readPos = callRead + ret

\* The same statement for the non-empty out buffers.
C5_NonEmptyOut ==
    (ReadReturned /\ Len(out) >= 1) => C5_ReadReturnsCount



(***************************************************************************)
(* Properties of the order books                                           *)
(***************************************************************************)

\* The prices with a non-empty level on one side of book s.
BidPrices(s) == { p \in 0 .. MAX_PRICE_LEVELS - 1 : levels[<<s, Bid, p>>].size > 0 }
AskPrices(s) == { p \in 0 .. MAX_PRICE_LEVELS - 1 : levels[<<s, Ask, p>>].size > 0 }

\* The best prices of book s, read off the levels.
BestBid(s) ==
    IF BidPrices(s) = {} THEN 0
    ELSE CHOOSE p \in BidPrices(s) : \A q \in BidPrices(s) : q <= p
BestAsk(s) ==
    IF AskPrices(s) = {} THEN MAX_PRICE_LEVELS
    ELSE CHOOSE p \in AskPrices(s) : \A q \in AskPrices(s) : p <= q

\* The events of the command that returned last.
IsLimit == events # <<>> /\ events[1].Type = ORDER_EVENT
IsCancel == events # <<>> /\ events[1].Type = CANCEL_EVENT
Executions == { k \in 1 .. Len(events) : events[k].Type = EXECUTION_EVENT }

\* The size of the aggressor left after the executions of its Limit.
RECURSIVE Filled(_, _)
Filled(evs, k) ==
    IF k = 0 THEN 0
    ELSE Filled(evs, k - 1) + (IF evs[k].Type = EXECUTION_EVENT THEN evs[k].Size ELSE 0)
AggressorRemaining == events[1].Size - Filled(events, Len(events))

\* C6: after every Limit or Cancel, every book is uncrossed: bid_max = 0 or
\* ask_min = MAX_PRICE_LEVELS or bid_max < ask_min, and no non-empty ask level
\* has a price <= the highest non-empty bid level of the same symbol.
C6_BookUncrossed ==
    \A s \in Symbols :
        /\ bidMax[s] = 0 \/ askMin[s] = MAX_PRICE_LEVELS \/ bidMax[s] < askMin[s]
        /\ \A pa \in AskPrices(s) : pa > BestBid(s)

\* C6 witness: a Limit has executed against the best ask and rests with the
\* rest of its size one tick below the asks that are left.
C6_Witness ==
    /\ IsLimit /\ Executions # {}
    /\ BidPrices(0) # {} /\ AskPrices(0) # {}
    /\ BestBid(0) + 1 = BestAsk(0)
    /\ bidMax[0] + 1 = askMin[0]

\* C7 as stated: after every Limit or Cancel, bid_max equals the maximum
\* price with a non-empty bid level or 0, and ask_min the minimum price with
\* a non-empty ask level or MAX_PRICE_LEVELS.
C7_CursorsAreBestPrices ==
    \A s \in Symbols : bidMax[s] = BestBid(s) /\ askMin[s] = BestAsk(s)

\* C7 amended: after every Limit or Cancel, bid_max is a price of the ladder
\* or 0 and is at least the maximum price with a non-empty bid level, ask_min
\* is a price of the ladder or MAX_PRICE_LEVELS and is at most the minimum
\* price with a non-empty ask level; a cursor is the best price whenever the
\* level it points at is non-empty, and it may point at an empty level, also
\* in an empty book.
C7_CursorsBoundBestPrices ==
    \A s \in Symbols :
        /\ bidMax[s] \in 0 .. MAX_PRICE_LEVELS - 1
        /\ askMin[s] \in 1 .. MAX_PRICE_LEVELS
        /\ BestBid(s) <= bidMax[s]
        /\ askMin[s] <= BestAsk(s)
        /\ bidMax[s] \in BidPrices(s) => bidMax[s] = BestBid(s)
        /\ askMin[s] \in AskPrices(s) => askMin[s] = BestAsk(s)

\* C7 witness: a Cancel has emptied the best bid level while a lower bid
\* level holds an order; bid_max still names the emptied level.
C7_Witness ==
    /\ IsCancel
    /\ BidPrices(0) # {}
    /\ BestBid(0) < bidMax[0]
    /\ levels[<<0, Bid, bidMax[0]>>].size = 0

\* The Limit that returned last executed at price p of book s and left the
\* opposite level at p empty.
DrainedAsk(s, p) ==
    /\ IsLimit /\ events[1].Symbol = s /\ events[1].Side = Bid
    /\ \E k \in Executions : events[k].Price = p
    /\ levels[<<s, Ask, p>>].size = 0
DrainedBid(s, p) ==
    /\ IsLimit /\ events[1].Symbol = s /\ events[1].Side = Ask
    /\ \E k \in Executions : events[k].Price = p
    /\ levels[<<s, Bid, p>>].size = 0

\* C8 as stated: when the matching of a Limit has emptied the best opposite
\* level, the cursor is at the next non-empty level or at the sentinel when
\* the Limit returns, also when the aggressor is exactly exhausted.
C8_CursorAdvancedAfterDrain ==
    \A s \in Symbols : \A p \in 1 .. MAX_PRICE_LEVELS - 1 :
        /\ DrainedAsk(s, p) => askMin[s] = BestAsk(s)
        /\ DrainedBid(s, p) => bidMax[s] = BestBid(s)

\* C8 amended: when the matching of a Limit has emptied the best opposite
\* level and the aggressor has size left, the cursor is at the next non-empty
\* level or at the sentinel when the Limit returns; when that level exactly
\* exhausts the aggressor, the cursor stays at the price of the last
\* execution, whose level is empty.
C8_CursorAdvancedWhileRemaining ==
    \A s \in Symbols : \A p \in 1 .. MAX_PRICE_LEVELS - 1 :
        /\ DrainedAsk(s, p) =>
              IF AggressorRemaining > 0
              THEN askMin[s] = BestAsk(s) /\ askMin[s] > p
              ELSE askMin[s] = events[Len(events)].Price
        /\ DrainedBid(s, p) =>
              IF AggressorRemaining > 0
              THEN bidMax[s] = BestBid(s) /\ bidMax[s] < p
              ELSE bidMax[s] = events[Len(events)].Price

\* C8 witness: a Bid has emptied the level at the best ask, has size left,
\* and ask_min is at the next ask level, which holds an order.
C8_Witness ==
    /\ DrainedAsk(0, 1)
    /\ AggressorRemaining > 0
    /\ askMin[0] = 2
    /\ levels[<<0, Ask, 2>>].size > 0

\* The ids on the chain from id along the next ids, at most fuel of them.
RECURSIVE Chain(_, _)
Chain(id, fuel) ==
    IF id = 0 \/ fuel = 0 THEN <<>>
    ELSE <<id>> \o Chain(orders[orderIndex[id]].Next, fuel - 1)
LevelChain(level) == Chain(levels[level].head, MAX_ORDERS + 1)

\* C9: after every Limit or Cancel, for every price level, count = 0 iff
\* head = 0 iff tail = 0, and count is the number of orders on the chain from
\* head along the next ids, which ends at tail, whose next id is 0.
C9_LevelCountMatchesChain ==
    \A level \in LevelRefs :
        /\ levels[level].size = 0 <=> levels[level].head = 0
        /\ levels[level].head = 0 <=> levels[level].tail = 0
        /\ Len(LevelChain(level)) = levels[level].size
        /\ levels[level].size > 0 =>
              /\ LevelChain(level)[levels[level].size] = levels[level].tail
              /\ orders[orderIndex[levels[level].tail]].Next = 0

\* C9 witness: a Cancel has taken the middle order out of a queue of three.
C9_Witness ==
    /\ IsCancel /\ events[1].OrderID = 2
    /\ levels[<<0, Bid, QueuePrice>>].size = 2
    /\ LevelChain(<<0, Bid, QueuePrice>>) = <<1, 3>>

\* The id that wrote the order record of a slot: slots are handed to
\* ascending ids.
Owner(slot) ==
    LET ids == { id \in 1 .. orderID : id < MAX_ORDERS /\ orderIndex[id] = slot }
    IN  IF ids = {} THEN 0 ELSE CHOOSE id \in ids : \A other \in ids : other <= id

\* The ids of the orders resting at a level; ids ascend in the order of
\* insertion, as every order is added by the Limit that issued its id.
RestingAt(level) ==
    { id \in 1 .. orderID :
        /\ id < MAX_ORDERS
        /\ Owner(orderIndex[id]) = id
        /\ orders[orderIndex[id]].Size > 0
        /\ orders[orderIndex[id]].Level = level }

\* The size executed against resting order id by the events before the k-th.
RECURSIVE FilledBefore(_, _, _)
FilledBefore(evs, k, id) ==
    IF k <= 1 THEN 0
    ELSE FilledBefore(evs, k - 1, id) +
         (IF evs[k - 1].Type = EXECUTION_EVENT /\ evs[k - 1].CounterOrderID = id
          THEN evs[k - 1].Size ELSE 0)

\* C10: within one price level, resting orders are matched in the order in
\* which they were added: when an aggressor executes against an order, every
\* order added earlier to the same level and resting when the Limit began has
\* been filled completely by the earlier executions of that Limit, also after
\* cancels in the middle of the queue.
C10_FifoWithinLevel ==
    [][\A k \in 1 .. Len(events') :
          events'[k].Type = EXECUTION_EVENT =>
              LET counter == events'[k].CounterOrderID
                  level == orders[orderIndex[counter]].Level
              IN  /\ counter \in RestingAt(level)
                  /\ \A earlier \in RestingAt(level) :
                        earlier < counter =>
                            FilledBefore(events', k, earlier)
                                = orders[orderIndex[earlier]].Size]_vars

\* C10 witness: of three orders queued at one price the middle one was
\* cancelled, and a Limit has executed against the first and then the third.
C10_Witness ==
    /\ IsLimit /\ Len(events) = 3
    /\ events[2].Type = EXECUTION_EVENT /\ events[2].CounterOrderID = 1
    /\ events[3].Type = EXECUTION_EVENT /\ events[3].CounterOrderID = 3
    /\ orderID = 4
    /\ orders[orderIndex[2]].Size = 0


(***************************************************************************)
(* Properties of matching                                                  *)
(***************************************************************************)

\* The prices of the executions of the command that returned last, in the
\* order of their events.
RECURSIVE ExecPrices(_, _)
ExecPrices(evs, k) ==
    IF k = 0 THEN <<>>
    ELSE IF evs[k].Type = EXECUTION_EVENT
         THEN Append(ExecPrices(evs, k - 1), evs[k].Price)
         ELSE ExecPrices(evs, k - 1)
LastExecPrices == ExecPrices(events, Len(events))

\* C11: a Bid executes against ask levels in ascending price order starting
\* at the best ask and stops exactly when it is exhausted, no asks are left
\* or the best ask left is above its limit price; an Ask descends from the
\* best bid in the same way.  It never executes at a price while an opposite
\* order rests at a better price, and it never rests while an opposite order
\* rests at a price within its limit.
C11_SweepInPriceOrder ==
    IsLimit =>
        LET s == events[1].Symbol
            limit == events[1].Price
            px == LastExecPrices
        IN  IF events[1].Side = Bid
            THEN /\ \A i \in 1 .. Len(px) - 1 : px[i] <= px[i + 1]
                 /\ \A i \in 1 .. Len(px) : \A q \in AskPrices(s) : px[i] <= q
                 /\ \A i \in 1 .. Len(px) - 1 :
                       px[i] < px[i + 1] => px[i] \notin AskPrices(s)
                 /\ \/ AggressorRemaining = 0
                    \/ AskPrices(s) = {}
                    \/ BestAsk(s) > limit
                 /\ AggressorRemaining > 0 => \A q \in AskPrices(s) : q > limit
            ELSE /\ \A i \in 1 .. Len(px) - 1 : px[i] >= px[i + 1]
                 /\ \A i \in 1 .. Len(px) : \A q \in BidPrices(s) : px[i] >= q
                 /\ \A i \in 1 .. Len(px) - 1 :
                       px[i] > px[i + 1] => px[i] \notin BidPrices(s)
                 /\ \/ AggressorRemaining = 0
                    \/ BidPrices(s) = {}
                    \/ BestBid(s) < limit
                 /\ AggressorRemaining > 0 => \A q \in BidPrices(s) : q < limit

\* C11 witness: a Bid has executed at the best ask and then at the next
\* higher ask level, which still holds size.
C11_Witness ==
    /\ IsLimit /\ events[1].Side = Bid
    /\ LastExecPrices = <<1, 2>>
    /\ AggressorRemaining = 0
    /\ AskPrices(0) = {2}


\* The ids of the orders resting in some level.
LiveIds ==
    { id \in 1 .. orderID :
        /\ id < MAX_ORDERS
        /\ Owner(orderIndex[id]) = id
        /\ orders[orderIndex[id]].Size > 0 }

\* The size with which order id rests in the level of its side and price.
RestingSize(id, level) ==
    IF \E i \in 1 .. Len(LevelChain(level)) : LevelChain(level)[i] = id
    THEN orders[orderIndex[id]].Size
    ELSE 0

\* The size executed against resting order id by the events evs.
FilledAgainst(evs, id) == FilledBefore(evs, Len(evs) + 1, id)

\* C12: when an accepted Limit returns, the sizes of the executions it
\* emitted as aggressor plus the size with which its remainder rests in the
\* book (0 if it does not rest) add up to its original size, and the size of
\* every order that was resting is reduced by exactly the fills executed
\* against it.
C12_SizeConserved ==
    [][IsLimit' =>
          LET ev == events'[1]
          IN  /\ \A id \in 1 .. MAX_ORDERS - 1 : \A level \in LevelRefs :
                    (id = ev.OrderID /\ level = <<ev.Symbol, ev.Side, ev.Price>>) =>
                        Filled(events', Len(events')) + RestingSize(id, level)'
                            = ev.Size
              /\ \A id \in LiveIds :
                    /\ orderIndex'[id] = orderIndex[id]
                    /\ orders'[orderIndex[id]].Size
                          = orders[orderIndex[id]].Size - FilledAgainst(events', id)]_vars

\* C12 witness: an aggressor of size 2 has filled one resting order of size
\* 1 completely and rests with the remaining 1.
C12_Witness ==
    /\ IsLimit /\ events[1].Size = 2
    /\ Filled(events, Len(events)) = 1
    /\ RestingSize(events[1].OrderID,
                   <<events[1].Symbol, events[1].Side, events[1].Price>>) = 1
    /\ orders[orderIndex[events[2].CounterOrderID]].Size = 0


(***************************************************************************)
(* Properties of the order pool                                            *)
(***************************************************************************)

\* The ids that were issued and have no resting order any more.
TerminalIds == (1 .. orderID) \ LiveIds

\* The command dispatched last.
IsCancelOf(cmd, id) == cmd.Type = CANCEL_EVENT /\ cmd.OrderID = id
RejectOnly == <<OutputEvent(REJECT_EVENT, 0, 0, 0, 0, 0, 0, 0)>>

\* C13: once an order id is terminal (cancelled or fully filled), every
\* later Cancel(id), after any commands in between, also ones that reuse its
\* slot, emits exactly one REJECT_EVENT and no CANCEL_EVENT and leaves every
\* resting order and every price level unchanged.
C13_TerminalCancelRejects ==
    [][\A id \in TerminalIds :
          IsCancelOf(lastCmd', id) =>
              /\ events' = RejectOnly
              /\ levels' = levels
              /\ orders' = orders]_vars


\* The ids on the chain of some level.
LinkedIds ==
    { id \in 1 .. MAX_ORDERS - 1 :
        \E level \in LevelRefs :
            \E i \in 1 .. Len(LevelChain(level)) : LevelChain(level)[i] = id }

\* C14: after every Limit or Cancel, for every id, a non-zero
\* order_index[id] points to a slot that holds the resting order id with a
\* positive size, and order_index[id] = 0 for every id without a live order
\* (never issued, cancelled or fully filled).
C14_IndexNamesLiveOrders ==
    \A id \in 0 .. MAX_ORDERS - 1 :
        /\ orderIndex[id] # 0 =>
              /\ orders[orderIndex[id]].Size > 0
              /\ id \in LinkedIds
        /\ id \notin LiveIds => orderIndex[id] = 0

\* The slots held in the freelist.
FreeSlotSet == { freeSlots[BitAnd(i, FREE_MASK)] : i \in freeHead .. freeTail - 1 }
FreeCount == freeTail - freeHead

\* C15: when the size of an order reaches 0, by a full fill during matching
\* or by a Cancel, its order_index entry is cleared to 0 and its slot is
\* offered back to the freelist: the slot is in the freelist afterwards
\* unless the freelist is full.
C15_TerminalOrderReleased ==
    [][\A id \in LiveIds :
          (orders'[orderIndex[id]].Size = 0) =>
              /\ orderIndex'[id] = 0
              /\ \/ orderIndex[id] \in FreeSlotSet'
                 \/ FreeCount' = DISTRIBUTOR_BUFFER - 1]_vars


(***************************************************************************)
(* Properties of rejected commands and of the ids                          *)
(***************************************************************************)

\* The state of the engine apart from the events of the last command.
engineState ==
    <<bidMax, askMin, levels, orders, orderIndex, orderID,
      freeSlots, freeHead, freeTail, panicked>>

\* An ORDER command that Limit has to reject.
IsInvalidOrder(cmd) ==
    /\ cmd.Type = ORDER_EVENT
    /\ cmd.Price = 0 \/ cmd.Price >= MAX_PRICE_LEVELS \/ cmd.Size = 0

\* C16: a Limit with price = 0, price >= MAX_PRICE_LEVELS or size = 0 emits
\* exactly one REJECT_EVENT and nothing else and leaves next_order_id, every
\* book, the order pool, order_index and the freelist unchanged.
C16_InvalidLimitRejected ==
    [][IsInvalidOrder(lastCmd') =>
          /\ events' = RejectOnly
          /\ engineState' = engineState]_vars

\* C16 witness: a Limit at price MAX_PRICE_LEVELS was rejected while two
\* orders rest in the book.
C16_Witness ==
    /\ IsInvalidOrder(lastCmd) /\ lastCmd.Price = MAX_PRICE_LEVELS
    /\ events = RejectOnly
    /\ orderID = 2 /\ LiveIds = {1, 2}


\* C17: Cancel(id) with id = 0 or id > next_order_id, also when no order has
\* been issued yet, emits exactly one REJECT_EVENT and leaves all engine
\* state unchanged.
C17_UnknownCancelRejected ==
    [][(lastCmd'.Type = CANCEL_EVENT
            /\ (lastCmd'.OrderID = 0 \/ lastCmd'.OrderID > orderID)) =>
          /\ events' = RejectOnly
          /\ engineState' = engineState]_vars

\* C17 witness: a Cancel of the id after the last issued one was rejected
\* while an order rests in the book.
C17_Witness ==
    /\ lastCmd.Type = CANCEL_EVENT /\ lastCmd.OrderID = orderID + 1
    /\ events = RejectOnly
    /\ orderID = 2 /\ LiveIds # {}

\* C18: for a live resting order id, two consecutive Cancel(id) commands
\* produce CANCEL_EVENT{id} for the first and exactly one REJECT_EVENT for
\* the second, and the second changes no state.
C18_SecondCancelRejected ==
    [][\A id \in 1 .. MAX_ORDERS - 1 :
          /\ (IsCancelOf(lastCmd', id) /\ id \in LiveIds) =>
                /\ events' = <<OutputEvent(CANCEL_EVENT, id, 0, 0, 0, 0, 0, 0)>>
                /\ orders'[orderIndex[id]].Size = 0
          /\ (IsCancelOf(lastCmd', id) /\ IsCancelOf(lastCmd, id) /\ IsCancel) =>
                /\ events' = RejectOnly
                /\ engineState' = engineState]_vars

\* C18 witness: the second of two Cancels of order 1 was rejected; order 1
\* was the head of a queue whose second order still rests.
C18_Witness ==
    /\ IsCancelOf(lastCmd, 1) /\ events = RejectOnly
    /\ orders[orderIndex[1]].Size = 0
    /\ orders[orderIndex[1]].Level # NilLevel
    /\ freeSlots[0] = 1 /\ freeTail = 1
    /\ LiveIds = {2}


\* C19: next_order_id never decreases, increases by exactly 1 on every
\* accepted Limit and is unchanged by rejected Limits and by Cancels, so the
\* ids of successive ORDER_EVENTs are 1, 2, 3, ..., the first one being 1.
C19_IdsCountUp ==
    [][/\ orderID' >= orderID
       /\ IF IsLimit'
          THEN /\ orderID' = orderID + 1
               /\ events'[1].OrderID = orderID + 1
          ELSE orderID' = orderID
       /\ lastCmd'.Type = CANCEL_EVENT => orderID' = orderID
       /\ IsInvalidOrder(lastCmd') => orderID' = orderID
       /\ (lastCmd'.Type = ORDER_EVENT /\ ~IsInvalidOrder(lastCmd')) => IsLimit']_vars

\* C19 witness: the third accepted Limit has reported id 3 after the Cancel
\* of order 1.
C19_Witness ==
    /\ IsLimit /\ events[1].OrderID = 3 /\ orderID = 3
    /\ orders[orderIndex[1]].Size = 0 /\ freeTail = 1


(***************************************************************************)
(* Properties of the output stream                                         *)
(***************************************************************************)

\* The position of the ORDER_EVENT of id in the stream comes before j.
OrderedBefore(id, j) ==
    \E i \in 1 .. j - 1 : stream[i].Type = ORDER_EVENT /\ stream[i].OrderID = id

\* C20: in the output event stream, for every order id, its ORDER_EVENT
\* precedes every EXECUTION_EVENT in which it is the aggressor, and all of
\* those precede any CANCEL_EVENT for that id.
C20_OrderExecutionCancel ==
    \A j \in 1 .. Len(stream) :
        /\ stream[j].Type = EXECUTION_EVENT => OrderedBefore(stream[j].OrderID, j)
        /\ stream[j].Type = CANCEL_EVENT =>
              /\ OrderedBefore(stream[j].OrderID, j)
              /\ \A k \in j + 1 .. Len(stream) :
                    ~(stream[k].Type = EXECUTION_EVENT
                        /\ stream[k].OrderID = stream[j].OrderID)

\* C20 witness: order 2 was reported, executed against order 1 as aggressor,
\* rested with its remainder and was cancelled.
C20_Witness ==
    /\ Len(stream) = 4
    /\ stream[2].Type = ORDER_EVENT /\ stream[2].OrderID = 2
    /\ stream[3].Type = EXECUTION_EVENT /\ stream[3].OrderID = 2
    /\ stream[4].Type = CANCEL_EVENT /\ stream[4].OrderID = 2

(***************************************************************************)
(* Properties of the pipeline and of single commands                       *)
(***************************************************************************)

\* The event of a rejection: only the type is set.
RejectEvent == OutputEvent(REJECT_EVENT, 0, 0, 0, 0, 0, 0, 0)

\* The last command was rejected: a REJECT_EVENT is among its events.
LastRejected == \E i \in 1 .. Len(events) : events[i].Type = REJECT_EVENT

\* The number of ORDER and CANCEL commands the input loop has dispatched.
CommandsProcessed ==
    Cardinality({ i \in 1 .. Len(applied) :
                    applied[i].Type \in {ORDER_EVENT, CANCEL_EVENT} })

\* C21: every ORDER or CANCEL command the engine has processed has produced
\* at least one output event, a rejected command exactly one REJECT_EVENT and
\* no other event, and so the engine has emitted at least as many events as
\* it has processed ORDER and CANCEL commands.
C21_EveryCommandAnswered ==
    /\ lastCmd.Type \in {ORDER_EVENT, CANCEL_EVENT} => Len(events) >= 1
    /\ LastRejected => events = <<RejectEvent>>
    /\ Len(stream) >= CommandsProcessed

\* C21 witness: a Cancel has just been rejected, after a command that
\* produced more than one event.
C21_Witness ==
    /\ lastCmd.Type = CANCEL_EVENT
    /\ events = <<RejectEvent>>
    /\ CommandsProcessed >= 3
    /\ Len(stream) > CommandsProcessed

\* C22: every EXECUTION_EVENT carries the id of the aggressor as order id,
\* the id of the resting order as counter id, as size the minimum of what
\* the aggressor had left and the size of the resting order at that moment,
\* and as price the price of the level the resting order rests at.
C22_ExecutionFields ==
    [][\A k \in 1 .. Len(events') :
          events'[k].Type = EXECUTION_EVENT =>
              LET ev == events'[k]
                  counter == ev.CounterOrderID
                  resting == orders[orderIndex[counter]]
              IN  /\ ev.OrderID = orderID'
                  /\ ev.OrderID = events'[1].OrderID
                  /\ counter \in LiveIds
                  /\ resting.Level[1] = lastCmd'.Symbol
                  /\ resting.Level[2] # lastCmd'.Side
                  /\ ev.Price = resting.Level[3]
                  /\ ev.Size = Min(lastCmd'.Size - Filled(events', k - 1),
                                   resting.Size - FilledBefore(events', k, counter))]_vars

\* C22 witness: an Ask with limit price 1 and size 2 has executed against
\* a Bid of size 1 resting at QueuePrice, above its limit.
C22_Witness ==
    /\ IsLimit /\ events[1].Side = Ask /\ events[1].Price = 1 /\ events[1].Size = 2
    /\ Len(events) = 2
    /\ events[2].Type = EXECUTION_EVENT
    /\ events[2].Price = QueuePrice /\ events[2].Size = 1

\* C23: every EXECUTION_EVENT has the side of the aggressor order as side
\* and the trader and the symbol of the aggressor as trader and symbol.
C23_ExecutionEchoesAggressor ==
    \A k \in Executions :
        /\ events[k].Side = lastCmd.Side
        /\ events[k].Trader = lastCmd.Trader
        /\ events[k].Symbol = lastCmd.Symbol

\* The accepted ORDER commands among the commands dispatched so far, and the
\* ORDER_EVENTs among the events emitted so far.
IsAcceptedOrder(cmd) == cmd.Type = ORDER_EVENT /\ ~IsInvalidOrder(cmd)
AcceptedOrders == SelectSeq(applied, IsAcceptedOrder)
IsOrderEvent(ev) == ev.Type = ORDER_EVENT
OrderEvents == SelectSeq(stream, IsOrderEvent)

\* C24: every accepted Limit emits exactly one ORDER_EVENT, which carries
\* the newly issued id and the price, original size, trader, symbol and side
\* of the command; so an ORDER command pushed on the input ring yields this
\* ORDER_EVENT on the output ring.
C24_OrderEventEchoesCommand ==
    /\ Len(OrderEvents) = Len(AcceptedOrders)
    /\ \A k \in 1 .. Len(AcceptedOrders) :
          OrderEvents[k] =
              [Type |-> ORDER_EVENT, OrderID |-> k,
               Price |-> AcceptedOrders[k].Price, Size |-> AcceptedOrders[k].Size,
               Trader |-> AcceptedOrders[k].Trader, Symbol |-> AcceptedOrders[k].Symbol,
               Side |-> AcceptedOrders[k].Side, CounterOrderID |-> 0]
    /\ IsAcceptedOrder(lastCmd) =>
          /\ events[1] = OrderEvents[Len(OrderEvents)]
          /\ events[1].OrderID = orderID
          /\ \A k \in 2 .. Len(events) : events[k].Type # ORDER_EVENT

\* C24 witness: an Ask that was pushed on the input ring as the second order
\* was filled by its Limit, and its ORDER_EVENT has left the output ring for
\* the callback.
C24_Witness ==
    /\ Len(AcceptedOrders) = 2
    /\ AcceptedOrders[2].Side = Ask
    /\ IsAcceptedOrder(lastCmd) /\ Len(events) = 2
    /\ \E i \in 1 .. Len(delivered) :
          /\ delivered[i].Type = ORDER_EVENT
          /\ delivered[i].OrderID = 2 /\ delivered[i].Side = Ask

\* A sequence of ids without the id given.
Without(ids, id) == SelectSeq(ids, LAMBDA other : other # id)

\* C25: the Cancel of a live resting order emits exactly one
\* CANCEL_EVENT{id}, sets the size of the order to 0 and takes it out of its
\* price level, whose count goes down by 1; the other orders of the level
\* stay in their relative order with their sizes, whether the cancelled order
\* was the head, the tail, in the middle or the only order of the level.
C25_CancelUnlinksOnlyTarget ==
    [][\A id \in 1 .. MAX_ORDERS - 1 :
          (IsCancelOf(lastCmd', id) /\ id \in LiveIds) =>
              \A level \in LevelRefs :
                  orders[orderIndex[id]].Level = level =>
                      /\ events' = <<OutputEvent(CANCEL_EVENT, id, 0, 0, 0, 0, 0, 0)>>
                      /\ orderIndex' = orderIndex
                      /\ orders'[orderIndex[id]].Size = 0
                      /\ levels'[level].size = levels[level].size - 1
                      /\ LevelChain(level)' = Without(LevelChain(level), id)
                      /\ \A other \in LiveIds \ {id} :
                            orders'[orderIndex[other]].Size
                                = orders[orderIndex[other]].Size
                      /\ \A l \in LevelRefs \ {level} : levels'[l] = levels[l]]_vars

\* C25 witness: the head of a queue of three orders was cancelled and the
\* second and the third order are the queue, with their sizes.
C25_Witness ==
    /\ IsCancel /\ events[1].OrderID = 1
    /\ orders[orderIndex[1]].Size = 0
    /\ LevelChain(<<0, Ask, QueuePrice>>) = <<2, 3>>
    /\ orders[orderIndex[2]].Size = 2
    /\ orders[orderIndex[3]].Size = 1

\* C26: Cancel never modifies bid_max or ask_min of any book, also when it
\* empties the level that is the best of its side.
C26_CancelKeepsCursors ==
    [][lastCmd'.Type = CANCEL_EVENT => bidMax' = bidMax /\ askMin' = askMin]_vars

\* C26 witness: a Cancel has emptied the bid level at QueuePrice, bid_max
\* still is QueuePrice and the best bid now rests one level below.
C26_Witness ==
    /\ IsCancel
    /\ bidMax[0] = QueuePrice
    /\ levels[<<0, Bid, QueuePrice>>].size = 0
    /\ BidPrices(0) = {1}

\* The levels of one side of the book of a symbol.
SideLevels(s, side) == { l \in LevelRefs : l[1] = s /\ l[2] = side }

\* C27: when an accepted Limit has size left after matching, its order rests
\* at the tail of the level of its own price on its own side of the book of
\* its symbol, with the size left, and bid_max (for a Bid) or ask_min (for an
\* Ask) becomes its price iff the price improves the cursor; when no size is
\* left nothing is added to the book.
C27_RemainderRestsAtTail ==
    [][IsAcceptedOrder(lastCmd') =>
          \A id \in 1 .. MAX_ORDERS - 1 : \A level \in LevelRefs :
              (/\ id = orderID'
               /\ level = <<lastCmd'.Symbol, lastCmd'.Side, lastCmd'.Price>>) =>
                  LET s == level[1]
                      price == level[3]
                      remaining == lastCmd'.Size - Filled(events', Len(events'))
                      own == SideLevels(s, level[2])
                  IN  IF remaining > 0
                      THEN /\ LevelChain(level)' = Append(LevelChain(level), id)
                           /\ levels'[level].size = levels[level].size + 1
                           /\ levels'[level].tail = id
                           /\ orders'[orderIndex'[id]].Size = remaining
                           /\ orders'[orderIndex'[id]].Level = level
                           /\ \A l \in own \ {level} : levels'[l] = levels[l]
                           /\ IF level[2] = Bid
                              THEN bidMax'[s] = IF price > bidMax[s] THEN price
                                                ELSE bidMax[s]
                              ELSE askMin'[s] = IF price < askMin[s] THEN price
                                                ELSE askMin[s]
                      ELSE /\ \A l \in own : levels'[l] = levels[l]
                           /\ \A l \in LevelRefs :
                                 \A i \in 1 .. Len(LevelChain(l)') : LevelChain(l)'[i] # id
                           /\ IF level[2] = Bid
                              THEN bidMax'[s] = bidMax[s]
                              ELSE askMin'[s] = askMin[s]]_vars

\* C27 witness: with a Bid resting at the lowest price, a Bid of size 2 at
\* QueuePrice has filled an Ask of size 1 and rests with size 1 at QueuePrice,
\* which now is bid_max.
C27_Witness ==
    /\ IsLimit /\ events[1].Side = Bid /\ events[1].Price = QueuePrice
    /\ events[1].Size = 2 /\ Len(events) = 2
    /\ LevelChain(<<0, Bid, 1>>) = <<1>>
    /\ LevelChain(<<0, Bid, QueuePrice>>) = <<3>>
    /\ orders[orderIndex[3]].Size = 1
    /\ bidMax[0] = QueuePrice

\* C28: the commands a single producer pushes are applied to the engine in
\* push order, and the output loop calls the callback exactly once for
\* every event the engine emitted, in emission order, across the boundaries
\* of the batches of DISTRIBUTOR_BUFFER elements the loops read: what was
\* applied, is in the input loop's batch and is on the input ring makes up
\* what was pushed, and what was delivered, is in the output loop's batch, is
\* on the output ring and is still to be pushed makes up what was emitted.
C28_PipelineKeepsOrder ==
    /\ applied \o inBatch \o inputRing = issued
    /\ delivered \o outBatch \o outputRing \o pending = stream
    /\ Len(inBatch) <= DISTRIBUTOR_BUFFER
    /\ Len(outBatch) <= DISTRIBUTOR_BUFFER

\* C28 witness: all commands were applied and all their events delivered,
\* both in more than one batch, the last event alone in its batch.
C28_Witness ==
    /\ Len(issued) = MaxIssue
    /\ applied = issued
    /\ Len(stream) > MaxIssue
    /\ delivered \o outBatch = stream
    /\ Len(outBatch) = 1
    /\ Len(delivered) >= DISTRIBUTOR_BUFFER

BidCandidates == { p \in 1 .. bidMax[0] : levels[<<0, Bid, p>>].size > 0 }
AskCandidates ==
    { p \in askMin[0] .. MAX_PRICE_LEVELS - 1 : levels[<<0, Ask, p>>].size > 0 }

\* C30: updateBestBid sets bid_max to the highest price p with
\* 1 <= p <= bid_max whose bid level is non-empty, or to 0 if there is none
\* (the level at price 0 is never selected); updateBestAsk sets ask_min to
\* the lowest price p with ask_min <= p < MAX_PRICE_LEVELS whose ask level is
\* non-empty, or to MAX_PRICE_LEVELS if there is none; both leave the cursor
\* unchanged when the level at the cursor is non-empty, and modify no level.
C30_UpdateBestScans ==
    [][/\ called' = "updateBestBid" =>
            /\ bidMax'[0] =
                  IF BidCandidates = {} THEN 0
                  ELSE CHOOSE p \in BidCandidates : \A q \in BidCandidates : q <= p
            /\ levels[<<0, Bid, bidMax[0]>>].size > 0 => bidMax'[0] = bidMax[0]
            /\ levels' = levels /\ askMin' = askMin
       /\ called' = "updateBestAsk" =>
            /\ askMin'[0] =
                  IF AskCandidates = {} THEN MAX_PRICE_LEVELS
                  ELSE CHOOSE p \in AskCandidates : \A q \in AskCandidates : p <= q
            /\ (askMin[0] < MAX_PRICE_LEVELS /\ levels[<<0, Ask, askMin[0]>>].size > 0)
                  => askMin'[0] = askMin[0]
            /\ levels' = levels /\ bidMax' = bidMax]_vars

\* C30 witness: updateBestBid has run in a book whose only non-empty bid
\* level is the one at price 0 and bid_max is 0, with ask_min below a
\* non-empty ask level.
C30_Witness ==
    /\ called = "updateBestBid"
    /\ bidMax[0] = 0
    /\ levels[<<0, Bid, 0>>].size > 0
    /\ \A p \in 1 .. MAX_PRICE_LEVELS - 1 : levels[<<0, Bid, p>>].size = 0
    /\ askMin[0] = 1
    /\ AskCandidates = {MAX_PRICE_LEVELS - 1}

(***************************************************************************)
(* Properties of the id space, the freelist and the books                  *)
(***************************************************************************)

\* C31: for every accepted Limit, after any number of accepted orders, the
\* new id that indexes order_index and the slot chosen for it are below
\* MAX_ORDERS, so that orders[] and order_index[] are never indexed out of
\* range.
C31_IndexInRange ==
    /\ ~panicked
    /\ orderID < MAX_ORDERS
    /\ \A id \in 1 .. orderID : orderIndex[id] < MAX_ORDERS

\* The freelist as a queue: the slots released and not yet reused, oldest
\* first.
FreeSeq ==
    [i \in 1 .. FreeCount |-> freeSlots[BitAnd(freeHead + i - 1, FREE_MASK)]]

\* C32: an accepted Limit takes the oldest slot of the freelist when the
\* freelist is non-empty and the slot numbered as the new id otherwise, and
\* records it in order_index[id]; a successful Cancel appends the slot of its
\* order to the freelist unless the freelist is full, in which case the
\* freelist is left as it was and the order is cancelled all the same; the
\* freelist never holds more than DISTRIBUTOR_BUFFER - 1 slots.
C32_FreelistIsQueue ==
    [][/\ (IsLimit' /\ ~panicked') =>
            /\ orderID' = orderID + 1
            /\ IF FreeSeq # <<>>
               THEN /\ orderIndex'[orderID'] = Head(FreeSeq)
                    /\ FreeSeq' = Tail(FreeSeq)
               ELSE /\ orderIndex'[orderID'] = orderID'
                    /\ FreeSeq' = <<>>
       /\ IsCancel' =>
            /\ orders'[orderIndex[lastCmd'.OrderID]].Size = 0
            /\ IF FreeCount = DISTRIBUTOR_BUFFER - 1
               THEN UNCHANGED <<freeSlots, freeHead, freeTail>>
               ELSE FreeSeq' = Append(FreeSeq, orderIndex[lastCmd'.OrderID])
       /\ FreeCount' <= DISTRIBUTOR_BUFFER - 1]_vars

\* C32 witness: two orders were cancelled in the order 1, 2 and the third
\* order has taken the slot released first; the slot released second is
\* still in the freelist.
C32_Witness ==
    /\ IsLimit /\ ~panicked
    /\ orderID = 3
    /\ orderIndex[3] = 1
    /\ FreeSeq = <<2>>

\* The freelist was full when the last Cancel released its slot.
C32_DropReached ==
    /\ IsCancel
    /\ FreeCount = DISTRIBUTOR_BUFFER - 1
    /\ orderIndex[lastCmd.OrderID] \notin FreeSlotSet
    /\ orders[orderIndex[lastCmd.OrderID]].Size = 0

(***************************************************************************)
(* Progress of the pipeline                                                *)
(***************************************************************************)

\* C33: with one producer, the input loop and the output loop each scheduled
\* under weak fairness and a callback that returns, every command pushed is
\* eventually dispatched and every event the engine emits is eventually
\* handed to the callback: whenever commands or events are outstanding, a
\* state follows in which all commands pushed have been applied, and one in
\* which all events emitted have been delivered, none missing.  This holds
\* also from the states where the input ring or the output ring is full, so
\* no thread is blocked for good and no event is dropped.
C33_EverythingDelivered ==
    /\ (Len(applied) < Len(issued)) ~> (applied = issued)
    /\ (Len(delivered) < Len(stream)) ~> (delivered = stream)

\* C33 witness: the producer has pushed more commands than the input ring
\* holds, and the engine finds the output ring full with an event still to
\* push.
C33_Witness ==
    /\ Len(issued) = MaxFlow
    /\ Len(outputRing) = RING_SIZE
    /\ pending # <<>>

\* The producer finds the input ring full with a command still to push.
C33_ProducerWaits ==
    /\ Len(inputRing) = RING_SIZE
    /\ Len(issued) < MaxFlow

(***************************************************************************)
(* Properties of the ring under concurrency                                *)
(***************************************************************************)

\* C34: the consumer never copies a cell the producer has not finished
\* writing.  Every cell in [readPos, writePos) holds the element pushed at its
\* position; Push has stored its element when it is about to publish
\* writePos + 1; and every cell Read copies lies in [readPos, write), write
\* being writePos as Read loaded it, holds the element pushed at its position
\* and is not the cell a Push in progress writes.
C34_CopiesOnlyPublishedCells ==
    /\ \A k \in readPos .. writePos - 1 :
          buffer[BitAnd(k, RING_MASK)] = pushed[k + 1]
    /\ ppc = "publish" =>
          /\ pw = writePos
          /\ buffer[BitAnd(pw, RING_MASK)] = pv
    /\ (cpc = "copy" /\ ci < ccount) =>
          /\ readPos <= cr + ci
          /\ cr + ci < cw
          /\ cw <= writePos
          /\ buffer[BitAnd(cr + ci, RING_MASK)] = pushed[cr + ci + 1]
          /\ ppc \in {"store", "publish"} =>
                BitAnd(pw, RING_MASK) # BitAnd(cr + ci, RING_MASK)

\* C34 witness: after the indices wrapped, the consumer is about to copy a
\* cell while the producer is about to store into another one, and elements
\* published after Read loaded writePos are left alone.
C34_Witness ==
    /\ cpc = "copy" /\ ci < ccount
    /\ ppc = "store"
    /\ pw > RING_SIZE
    /\ cw < writePos

\* The handlers that are inside Push.
InPush == { h \in Handlers : hpc[h] \notin {"none", "scan"} }

\* C35: at most one thread at a time executes Push on the input ring, also
\* when several clients are connected to the TCP server, so that no command
\* a Push has returned for is lost or overwritten: once every Push has
\* returned, the ring holds the commands pushed, in the cells from readPos
\* to writePos.
C35_OnePushAtATime ==
    /\ Cardinality(InPush) <= 1
    /\ InPush = {} =>
          /\ writePos = Len(pushed)
          /\ \A k \in readPos .. writePos - 1 :
                buffer[BitAnd(k, RING_MASK)] = pushed[k + 1]

\* Every Push has returned and a command is missing from the ring.
C35_CommandLost ==
    /\ InPush = {}
    /\ Len(pushed) = 2
    /\ writePos = 1

(***************************************************************************)
(* Properties of the cursors, the slots and the books                      *)
(***************************************************************************)

\* The price of a level.
LevelPrice(level) == level[3]

\* C36: in every state reached after a Limit or Cancel returns, for every
\* book, no non-empty bid level and no resting Bid lies above bid_max and no
\* non-empty ask level and no resting Ask lies below ask_min: a cursor may
\* point at an empty level but hides no resting order from the next match.
C36_CursorsHideNoOrder ==
    \A level \in LevelRefs :
        (levels[level].size > 0 \/ RestingAt(level) # {}) =>
            IF level[2] = Bid
            THEN LevelPrice(level) <= bidMax[level[1]]
            ELSE askMin[level[1]] <= LevelPrice(level)

\* C36 witness: a Bid that crossed has emptied the lowest ask level and has
\* stopped below a higher ask level, which ask_min now names, and rests as
\* the best bid.
C36_Witness ==
    /\ IsLimit /\ events[1].Side = Bid /\ Executions # {}
    /\ levels[<<0, Ask, 1>>].size = 0
    /\ askMin[0] = 3 /\ levels[<<0, Ask, 3>>].size > 0
    /\ bidMax[0] = 2 /\ RestingAt(<<0, Bid, 2>>) = {orderID}

\* C37: in every reachable state of the pooled engine, no two resting orders
\* (ids linked in some price level) map through order_index to the same slot,
\* and no slot held in the freelist is the slot of a resting order, so that
\* the slot an accepted Limit takes is the slot of no resting order.
C37_SlotsNotShared ==
    /\ \A a \in LinkedIds : \A b \in LinkedIds :
          a # b => orderIndex[a] # orderIndex[b]
    /\ \A id \in LinkedIds : orderIndex[id] \notin FreeSlotSet
    /\ (IsLimit /\ ~panicked) =>
          \A id \in LinkedIds : id # orderID => orderIndex[id] # orderIndex[orderID]

\* C37 witness: the slot of a cancelled order was taken by a later order,
\* which rested behind an older resting order; then the first id of the slot
\* was cancelled again, which took the later order off the level and put the
\* slot back in the freelist.
C37_Witness ==
    /\ IsCancel /\ lastCmd.OrderID = 1
    /\ orderIndex[3] = 1
    /\ LinkedIds = {2}
    /\ FreeSeq = <<1>>
    /\ orders[1].Size = 0

\* The other side.
Opposite(side) == IF side = Bid THEN Ask ELSE Bid

\* The ids on the chains of the levels of one side of book s.
LinkedOn(s, side) ==
    { id \in 1 .. MAX_ORDERS - 1 :
        \E level \in SideLevels(s, side) :
            \E i \in 1 .. Len(LevelChain(level)) : LevelChain(level)[i] = id }

\* C38: a Limit on symbol s changes only the book of s: bid_max, ask_min,
\* every level and every resting order of every other symbol's book are
\* unchanged, and every EXECUTION_EVENT it emits has as counter id an order
\* that was resting in the book of s on the opposite side.
C38_LimitTouchesOwnBook ==
    [][lastCmd'.Type = ORDER_EVENT =>
          /\ \A t \in Symbols \ {lastCmd'.Symbol} :
                bidMax'[t] = bidMax[t] /\ askMin'[t] = askMin[t]
          /\ \A level \in LevelRefs :
                level[1] # lastCmd'.Symbol =>
                    /\ levels'[level] = levels[level]
                    /\ LevelChain(level)' = LevelChain(level)
                    /\ \A id \in RestingAt(level) :
                          orders'[orderIndex[id]] = orders[orderIndex[id]]
          /\ \A k \in 1 .. Len(events') :
                events'[k].Type = EXECUTION_EVENT =>
                    /\ events'[k].Symbol = lastCmd'.Symbol
                    /\ events'[k].CounterOrderID
                          \in LinkedOn(lastCmd'.Symbol, Opposite(lastCmd'.Side))]_vars

\* C38 witness: with an older Ask resting in the book of symbol 0 at the
\* same price, a Bid on symbol 1 has executed against the Ask of its own
\* book and has left the book of symbol 0 as it was.
C38_Witness ==
    /\ IsLimit /\ lastCmd.Symbol = 1 /\ lastCmd.Side = Bid
    /\ Executions # {}
    /\ events[2].CounterOrderID = 2
    /\ LinkedOn(0, Ask) = {1}
    /\ askMin[0] = QueuePrice
    /\ LinkedOn(1, Ask) = {}

\* C39: every EXECUTION_EVENT has size >= 1 and a price within the limit of
\* its aggressor, at most the limit price of a Bid and at least the limit
\* price of an Ask, also when the cursor pointed at an emptied level when the
\* matching began.
C39_ExecutionWithinLimit ==
    IsLimit =>
        \A k \in Executions :
            /\ events[k].Size >= 1
            /\ events[k].Price \in 1 .. MAX_PRICE_LEVELS - 1
            /\ IF lastCmd.Side = Bid
               THEN events[k].Price <= lastCmd.Price
               ELSE events[k].Price >= lastCmd.Price

\* C39 witness: the first order, an Ask at price 1, was cancelled, which
\* left ask_min at its emptied level; the third order, a Bid with limit 3,
\* has found that level empty, has executed at 3 against the second order and
\* was filled, so that the slot it took from the freelist still holds the
\* record of the cancelled Ask.
C39_Witness ==
    /\ IsLimit /\ lastCmd.Side = Bid /\ lastCmd.Price = 3
    /\ orderID = 3
    /\ Executions = {2}
    /\ events[2].Price = 3 /\ events[2].CounterOrderID = 2
    /\ events[2].Size = lastCmd.Size
    /\ orders[orderIndex[3]].Level = <<0, Ask, 1>>
    /\ orders[orderIndex[3]].Size = 0
    /\ levels[<<0, Ask, 1>>].size = 0

====
